---- MODULE Spec2Model ----
(***************************************************************************)
(* PDFBooklet: the sheet-arrangement planner (BookletLayout), the          *)
(* transform store (PageTransformManager), the save pass (PDFSaver) and    *)
(* the preview (PDFRenderer), translated from src/src/logic, and the main  *)
(* window with its save worker, translated from src/src/gui.               *)
(*                                                                         *)
(* Conventions of the translation:                                         *)
(*  - a Python list is a sequence (1-based here, 0-based in the source);   *)
(*  - a layout entry that is a tuple (a, b) is <<a, b>>; a layout entry    *)
(*    that is a bare page index p (single mode) is the one-element <<p>>,  *)
(*    so isinstance(entry, tuple) is Len(entry) = 2;                       *)
(*  - Python's None for an Optional[Transform] is the record NoTransform.  *)
(***************************************************************************)
EXTENDS Integers, Sequences, FiniteSets

VARIABLES
    layout,             \* the BookletLayout object (processor.layout)
    layout_op,          \* name of the last BookletLayout method called
    layout_arg,         \* argument of the last get_page_indices call
    layout_ret,         \* LayoutMap returned by the last generate_* call
    indices_ret,        \* pair returned by the last get_page_indices call
    transform_manager,  \* the PageTransformManager object
    tm_op,              \* name of the last PageTransformManager method called
    tm_arg,             \* page_index of the last call that takes one
    tm_ret,             \* what the last call returned (NoTransform for None)
    reader_pages,       \* the pages of the source PDF, as PdfReader yields them
    output_width,       \* BookletProcessor.output_width (one page, points)
    output_height,      \* BookletProcessor.output_height (one page, points)
    pixmap,             \* what the last BookletProcessor.render_page returned
    layout_map,         \* PDFSaver.save_booklet argument
    mode,               \* PDFSaver.save_booklet argument
    output_width_pt,    \* PDFSaver.save_booklet argument (the sheet)
    output_height_pt,   \* PDFSaver.save_booklet argument (the sheet)
    downscale_images,   \* PDFSaver.save_booklet argument
    writer,             \* the pages added to the PdfWriter, in order
    loop_i,             \* i of "for i, entry in enumerate(layout_map)"
    progress,           \* the percentages given to progress_callback, in order
    pc,                 \* where the save pass is: idle, loop, done
    result,             \* what save_booklet returned (read when pc = "done")
    is_pdf_open,        \* MainWindow._is_pdf_open, and booklet_processor is set
    selected_mode,      \* what general_options_widget.get_imposition_mode() gives
    selected_output_size, \* what general_options_widget.get_output_size() gives
    current_booklet_page, \* MainWindow.current_booklet_page
    current_preview_dpi,  \* MainWindow.current_preview_dpi
    tabs_enabled,       \* the option tabs, as _enable_all_tabs left them
    menu_enabled,       \* menuBar().isEnabled()
    control_enabled,    \* control_widget.isEnabled()
    saving_thread,      \* MainWindow.saving_thread: "none", "running", or
                        \* "quitting" once quit() was called on it
    saving_worker,      \* MainWindow.saving_worker: NoWorker, or the worker
    running_saves,      \* the QThreads started by _perform_save that have
                        \* not finished yet, counted
    processing_thread,  \* MainWindow.processing_thread: "none" or "running"
    worker,             \* a BookletWorker: the arguments of its __init__
    worker_pc,          \* where that worker's run() is, and its locals
    signals,            \* the signals that worker has emitted, in order
    raw_ctm,            \* _merge_page_with_transform: transformation.ctm, each
                        \* float with the rounding error it carries
    cleaned_ctm         \* _merge_page_with_transform: the list cleaned_ctm

layoutVars == <<layout, layout_op, layout_arg, layout_ret, indices_ret>>

transformVars == <<transform_manager, tm_op, tm_arg, tm_ret>>

processorVars == <<reader_pages, output_width, output_height, pixmap>>

saveVars == <<layout_map, mode, output_width_pt, output_height_pt,
              downscale_images, writer, loop_i, progress, pc, result>>

windowVars == <<is_pdf_open, selected_mode, selected_output_size,
                current_booklet_page, current_preview_dpi, tabs_enabled,
                menu_enabled, control_enabled, saving_thread, saving_worker,
                running_saves, processing_thread>>

workerVars == <<worker, worker_pc, signals>>

mergeVars == <<raw_ctm, cleaned_ctm>>

vars == <<layoutVars, transformVars, processorVars, saveVars, windowVars,
          workerVars, mergeVars>>

-----------------------------------------------------------------------------
(* Bounds of the model *)

\* largest source page count given to BookletLayout
MaxPages == 9

\* largest total_pages given to PageTransformManager
MaxTotalPages == 2

\* largest page count of a source PDF that is saved
MaxSourcePages == 4

-----------------------------------------------------------------------------
(* booklet_layout.py: BookletLayout *)

\* A plausible slip: the outer "% 4" forgotten.
PaddingNeededNoWrap(original_page_count) == 4 - (original_page_count % 4)

\* __init__, line 33
PaddingNeeded(original_page_count) == (4 - (original_page_count % 4)) % 4

\* __init__
BookletLayout(original_page_count) ==
    [original_page_count |-> original_page_count,
     active_mode         |-> "booklet",
     active_layout       |-> <<>>,
     padding_needed      |-> PaddingNeeded(original_page_count),
     padded_page_count   |-> original_page_count + PaddingNeeded(original_page_count)]

\* A plausible slip: the front side counted down from the last source page
\* instead of the last padded page.
FrontSideUnpadded(self, i) ==
    LET front_left  == self.original_page_count - 1 - (2 * i)
        front_right == 2 * i
    IN  <<front_left, front_right>>

\* generate_booklet_layout, lines 51-54: the front side of sheet i
FrontSide(self, i) ==
    LET front_left  == self.padded_page_count - 1 - (2 * i)
        front_right == 2 * i
    IN  <<front_left, front_right>>

\* A plausible slip: the back side built in the front side's order.
BackSideSwapped(self, i) ==
    LET back_left  == (2 * i) + 1
        back_right == self.padded_page_count - 1 - ((2 * i) + 1)
    IN  <<back_right, back_left>>

\* generate_booklet_layout, lines 56-59: the back side of sheet i
BackSide(self, i) ==
    LET back_left  == (2 * i) + 1
        back_right == self.padded_page_count - 1 - ((2 * i) + 1)
    IN  <<back_left, back_right>>

\* generate_booklet_layout, lines 47-59: for i in range(num_sheets), from i on
RECURSIVE BookletLoop(_, _, _, _)
BookletLoop(self, i, num_sheets, lay) ==
    IF i >= num_sheets THEN lay
    ELSE BookletLoop(self, i + 1, num_sheets,
                     Append(Append(lay, FrontSide(self, i)), BackSide(self, i)))

\* generate_booklet_layout: the object after the call (the call returns
\* its active_layout)
generate_booklet_layout(self) ==
    LET num_sheets == self.padded_page_count \div 4
        lay        == BookletLoop(self, 0, num_sheets, <<>>)
    IN  [self EXCEPT !.active_layout = lay, !.active_mode = "booklet"]

\* A plausible slip: the blank test written "<=", so the last page loses its
\* partner slot's neighbour.
CalendarBottomOffByOne(self, i) ==
    IF (i + 1) <= self.original_page_count THEN i + 1 ELSE -1

\* generate_calendar_layout, line 81
CalendarBottom(self, i) ==
    IF (i + 1) < self.original_page_count THEN i + 1 ELSE -1

\* generate_calendar_layout, lines 77-82: for i in range(0, n, 2), from i on
RECURSIVE CalendarLoop(_, _, _)
CalendarLoop(self, i, lay) ==
    IF i >= self.original_page_count THEN lay
    ELSE CalendarLoop(self, i + 2, Append(lay, <<i, CalendarBottom(self, i)>>))

\* generate_calendar_layout
generate_calendar_layout(self) ==
    LET lay == CalendarLoop(self, 0, <<>>)
    IN  [self EXCEPT !.active_layout = lay, !.active_mode = "calendar"]

\* generate_single_page_layout: list(range(n)), each entry a bare index
generate_single_page_layout(self) ==
    LET lay == [k \in 1..self.original_page_count |-> <<k - 1>>]
    IN  [self EXCEPT !.active_layout = lay, !.active_mode = "single"]

\* get_layout_count
get_layout_count(self) == Len(self.active_layout)

\* A plausible slip: the upper bound tested with ">".
get_page_indices_loose(self, layout_index) ==
    IF layout_index < 0 \/ layout_index > Len(self.active_layout)
    THEN <<-1, -1>>
    ELSE IF layout_index = Len(self.active_layout)
         THEN <<-2, -2>>   \* the read past the end: no sentinel, no entry
         ELSE LET entry == self.active_layout[layout_index + 1]
              IN  IF Len(entry) = 2 THEN entry ELSE <<entry[1], -1>>

\* get_page_indices
get_page_indices(self, layout_index) ==
    IF layout_index < 0 \/ layout_index >= Len(self.active_layout)
    THEN <<-1, -1>>
    ELSE LET entry == self.active_layout[layout_index + 1]
         IN  IF Len(entry) = 2 THEN entry ELSE <<entry[1], -1>>

\* is_blank_page
is_blank_page(self, page_index) == page_index >= self.original_page_count

-----------------------------------------------------------------------------
(* page_transforms.py: Transform and PageTransformManager *)

\* Transform(): the dataclass defaults
Identity ==
    [h_shift_mm |-> 0, v_shift_mm |-> 0, scale_percent |-> 100,
     rotation_deg |-> 0, h_flip |-> FALSE, v_flip |-> FALSE,
     h_scale_percent |-> 100, v_scale_percent |-> 100]

\* None, where the source holds an Optional[Transform]
NoTransform == [none |-> TRUE]

\* Transform.is_identity
is_identity(self) ==
    /\ self.h_shift_mm = 0
    /\ self.v_shift_mm = 0
    /\ self.scale_percent = 100
    /\ self.rotation_deg = 0
    /\ ~self.h_flip
    /\ ~self.v_flip
    /\ self.h_scale_percent = 100
    /\ self.v_scale_percent = 100

\* PageTransformManager.__init__; page_transforms is the dict, a function
\* on the set of its keys
PageTransformManager(total_pages) ==
    [total_pages          |-> total_pages,
     global_transform     |-> Identity,
     page_transforms      |-> [k \in {} |-> Identity],
     even_pages_transform |-> NoTransform,
     odd_pages_transform  |-> NoTransform,
     explicit_overrides   |-> {}]

\* dict store d[k] = v
DictSet(d, k, v) == [x \in (DOMAIN d) \cup {k} |-> IF x = k THEN v ELSE d[x]]

\* dict delete del d[k]
DictDel(d, k) == [x \in (DOMAIN d) \ {k} |-> d[x]]

\* A plausible slip: setting the default also drops the per-page overrides.
set_global_transform_clearing(self, transform) ==
    [self EXCEPT !.global_transform = transform,
                 !.page_transforms = [k \in {} |-> Identity],
                 !.explicit_overrides = {}]

\* set_global_transform
set_global_transform(self, transform) ==
    [self EXCEPT !.global_transform = transform]

\* set_page_transform: any other domain string falls through every branch
set_page_transform(self, page_index, transform, domain) ==
    IF domain = "this" THEN
        [self EXCEPT !.page_transforms = DictSet(@, page_index, transform),
                     !.explicit_overrides = @ \cup {page_index}]
    ELSE IF domain = "all" THEN
        [self EXCEPT !.page_transforms = DictSet(@, page_index, transform),
                     !.explicit_overrides = @ \cup {page_index}]
    ELSE IF domain = "even" THEN
        [self EXCEPT !.even_pages_transform = transform]
    ELSE IF domain = "odd" THEN
        [self EXCEPT !.odd_pages_transform = transform]
    ELSE self

\* A plausible slip: the upper bound tested with ">".
PageInRangeLoose(self, page_index) ==
    ~(page_index < 0 \/ page_index > self.total_pages)

\* get_transform_for_page, line 136 (negated): the index is a source page
PageInRange(self, page_index) ==
    ~(page_index < 0 \/ page_index >= self.total_pages)

\* A plausible slip: the override substituted for the default, not compounded.
CompoundSubstituted(t, global_t) == t

\* get_transform_for_page, lines 144-153, and the same expression again in
\* lines 159-168 (even_t) and 171-180 (odd_t).  The percentages of the model
\* are chosen so that every product is a multiple of 100: the quotient is
\* the exact number the float division gives.
Compound(t, global_t) ==
    [h_shift_mm      |-> t.h_shift_mm + global_t.h_shift_mm,
     v_shift_mm      |-> t.v_shift_mm + global_t.v_shift_mm,
     scale_percent   |-> (t.scale_percent * global_t.scale_percent) \div 100,
     rotation_deg    |-> t.rotation_deg + global_t.rotation_deg,
     h_flip          |-> t.h_flip # global_t.h_flip,
     v_flip          |-> t.v_flip # global_t.v_flip,
     h_scale_percent |-> (t.h_scale_percent * global_t.h_scale_percent) \div 100,
     v_scale_percent |-> (t.v_scale_percent * global_t.v_scale_percent) \div 100]

\* A plausible slip: the parity taken of the 0-based index.
PageNumberZeroBased(page_index) == page_index

\* get_transform_for_page, line 156
PageNumber(page_index) == page_index + 1

\* get_transform_for_page: the Transform returned
get_transform_for_page(self, page_index) ==
    IF ~PageInRange(self, page_index) THEN Identity
    ELSE LET global_t    == self.global_transform
             page_number == PageNumber(page_index)
         IN  IF page_index \in DOMAIN self.page_transforms
             THEN Compound(self.page_transforms[page_index], global_t)
             ELSE IF page_number % 2 = 0 /\ self.even_pages_transform # NoTransform
             THEN Compound(self.even_pages_transform, global_t)
             ELSE IF page_number % 2 = 1 /\ self.odd_pages_transform # NoTransform
             THEN Compound(self.odd_pages_transform, global_t)
             ELSE global_t

\* A plausible slip: the dict entry deleted, the override mark left behind.
clear_page_transform_keeping(self, page_index) ==
    [self EXCEPT !.page_transforms =
                     IF page_index \in DOMAIN @ THEN DictDel(@, page_index) ELSE @]

\* clear_page_transform
clear_page_transform(self, page_index) ==
    [self EXCEPT !.page_transforms =
                     IF page_index \in DOMAIN @ THEN DictDel(@, page_index) ELSE @,
                 !.explicit_overrides = @ \ {page_index}]

\* clear_domain_transforms
clear_domain_transforms(self) ==
    [self EXCEPT !.even_pages_transform = NoTransform,
                 !.odd_pages_transform = NoTransform]

\* clear_all_page_transforms
clear_all_page_transforms(self) ==
    clear_domain_transforms(
        [self EXCEPT !.page_transforms = [k \in {} |-> Identity],
                     !.explicit_overrides = {}])

\* reset
reset(self) ==
    clear_domain_transforms(
        [self EXCEPT !.global_transform = Identity,
                     !.page_transforms = [k \in {} |-> Identity],
                     !.explicit_overrides = {}])

\* get_page_only_transform
get_page_only_transform(self, page_index) ==
    IF page_index \in DOMAIN self.page_transforms
    THEN self.page_transforms[page_index]
    ELSE Identity

-----------------------------------------------------------------------------
(* The numbers of the geometry.  The source computes in floating point;    *)
(* here a number is an exact fraction <<n, d>> in lowest terms with d > 0, *)
(* so that a quotient such as 72 / 25.4 or a fit scale is kept as it is.   *)

RECURSIVE GCD(_, _)
GCD(a, b) == IF b = 0 THEN a ELSE GCD(b, a % b)

Abs(n) == IF n < 0 THEN -n ELSE n

\* n / d with both divided by g, the denominator made positive
Lowest(n, d, g) ==
    IF d < 0 THEN <<(-n) \div g, (-d) \div g>> ELSE <<n \div g, d \div g>>

\* the fraction n / d in lowest terms, d # 0
Frac(n, d) == Lowest(n, d, GCD(Abs(n), Abs(d)))

\* float(n) of an integer
Num(n) == <<n, 1>>

RAdd(x, y) == Frac(x[1] * y[2] + y[1] * x[2], x[2] * y[2])
RSub(x, y) == Frac(x[1] * y[2] - y[1] * x[2], x[2] * y[2])
RMul(x, y) == Frac(x[1] * y[1], x[2] * y[2])
RDiv(x, y) == Frac(x[1] * y[2], x[2] * y[1])
RNeg(x) == <<-x[1], x[2]>>
RAbs(x) == <<Abs(x[1]), x[2]>>
RLess(x, y) == x[1] * y[2] < y[1] * x[2]
RMin(x, y) == IF RLess(y, x) THEN y ELSE x

\* int(x) of Python: truncation towards zero
RTrunc(x) == IF x[1] < 0 THEN -((-x[1]) \div x[2]) ELSE x[1] \div x[2]

\* math.cos and math.sin of an angle in degrees, for the multiples of 90
CosDeg(deg) ==
    IF deg % 360 = 0 THEN Num(1) ELSE IF deg % 360 = 180 THEN Num(-1) ELSE Num(0)

SinDeg(deg) ==
    IF deg % 360 = 90 THEN Num(1) ELSE IF deg % 360 = 270 THEN Num(-1) ELSE Num(0)

-----------------------------------------------------------------------------
(* pypdf.Transformation as _merge_page_with_transform uses it: ctm is      *)
(* (a, b, c, d, e, f), the matrix ((a, b, 0), (c, d, 0), (e, f, 1)), and   *)
(* each call multiplies that matrix by the matrix of the operation.        *)

\* Transformation()
Transformation == <<Num(1), Num(0), Num(0), Num(1), Num(0), Num(0)>>

\* Transformation.translate(tx, ty)
translate(m, tx, ty) ==
    <<m[1], m[2], m[3], m[4], RAdd(m[5], tx), RAdd(m[6], ty)>>

\* Transformation.scale(sx, sy)
scale(m, sx, sy) ==
    <<RMul(m[1], sx), RMul(m[2], sy), RMul(m[3], sx), RMul(m[4], sy),
      RMul(m[5], sx), RMul(m[6], sy)>>

\* the matrix m times the rotation matrix ((cos, sin), (-sin, cos))
rotate_by(m, cos, sin) ==
    <<RSub(RMul(m[1], cos), RMul(m[2], sin)), RAdd(RMul(m[1], sin), RMul(m[2], cos)),
      RSub(RMul(m[3], cos), RMul(m[4], sin)), RAdd(RMul(m[3], sin), RMul(m[4], cos)),
      RSub(RMul(m[5], cos), RMul(m[6], sin)), RAdd(RMul(m[5], sin), RMul(m[6], cos))>>

\* Transformation.rotate(rotation), rotation in degrees
rotate(m, rotation) == rotate_by(m, CosDeg(rotation), SinDeg(rotation))

\* the point (x, y) under the matrix m
Apply(m, x, y) ==
    <<RAdd(RAdd(RMul(x, m[1]), RMul(y, m[3])), m[5]),
      RAdd(RAdd(RMul(x, m[2]), RMul(y, m[4])), m[6])>>

-----------------------------------------------------------------------------
(* pdf_saver.py: PDFSaver, and BookletProcessor.save_booklet calling it.   *)
(* An output page is [width, height, xobjects, contents, stream]: xobjects *)
(* is the /XObject dictionary of its resources, keyed by the number n of   *)
(* the name /Fm<n> and holding the number of the source page whose content *)
(* the form carries; stream is the operator sequence of its /Contents, and *)
(* contents the placements that were appended to it, one record each.      *)
(* A source page is [has_contents, width, height], the last two its        *)
(* mediabox.                                                               *)

\* PageObject.create_blank_page(width, height)
create_blank_page(width, height) ==
    [width    |-> width,
     height   |-> height,
     xobjects |-> [k \in {} |-> 0],
     contents |-> <<>>,
     stream   |-> <<>>]

\* save_booklet, lines 73-76: idx_a, idx_b of a layout entry
EntryIndices(entry) ==
    IF Len(entry) = 2 THEN <<entry[1], entry[2]>> ELSE <<entry[1], -1>>

\* save_booklet, lines 86-90 (and 91-95, 109-118, 132-136): the transform
\* asked of the manager for a slot member, None for a negative index
TransformFor(manager, idx) ==
    IF idx >= 0 THEN get_transform_for_page(manager, idx) ELSE NoTransform

\* "0 <= idx < len(reader.pages)"
IsSourcePage(reader, idx) == 0 <= idx /\ idx < Len(reader)

\* _merge_page_with_transform, lines 314-319: h_scale, v_scale
user_scale(transform) ==
    <<RMul(RDiv(Num(transform.h_scale_percent), Num(100)),
           RDiv(Num(transform.scale_percent), Num(100))),
      RMul(RDiv(Num(transform.v_scale_percent), Num(100)),
           RDiv(Num(transform.scale_percent), Num(100)))>>

\* _merge_page_with_transform, lines 350-351: mm * 72 / 25.4
shift_pt(mm) == RDiv(RMul(Num(mm), Num(72)), <<127, 5>>)

\* A plausible slip: the angle negated under the h-mirror only.
flipped_rotation_h_only(transform) ==
    IF transform.h_flip THEN -transform.rotation_deg ELSE transform.rotation_deg

\* _merge_page_with_transform, lines 343-347: the angle after the flips
flipped_rotation(transform) ==
    LET once == IF transform.h_flip THEN -transform.rotation_deg
                ELSE transform.rotation_deg
    IN  IF transform.v_flip THEN -once ELSE once

\* lines 307-308 (and 376-377): base_scale, the scale that fits the source
\* page into the target rectangle
fit_scale(src_width, src_height, target_rect) ==
    RMin(RDiv(Num(target_rect[3] - target_rect[1]), Num(src_width)),
         RDiv(Num(target_rect[4] - target_rect[2]), Num(src_height)))

\* lines 321-329: center_x (center_y) from x0 (y0), the target width
\* (height) and the final width (height)
centred(origin, target_extent, final_extent) ==
    RAdd(origin, RDiv(RSub(target_extent, final_extent), Num(2)))

\* A plausible slip: the mirror left out of the axis scale.
final_scale_unmirrored(base_scale, axis_scale, flip) == RMul(base_scale, axis_scale)

\* lines 333-341: final_scale_x (final_scale_y)
final_scale(base_scale, axis_scale, flip) ==
    IF flip THEN RNeg(RMul(base_scale, axis_scale)) ELSE RMul(base_scale, axis_scale)

\* lines 358-364: the rotation about the origin, when there is one
rotated(op, rotation_deg) ==
    IF rotation_deg # 0 THEN rotate(op, -rotation_deg) ELSE op

\* lines 366-369: final_x (final_y)
final_position(center, src_center, base_scale, axis_scale, shift_mm) ==
    RAdd(RAdd(center, RMul(RMul(src_center, base_scale), RAbs(axis_scale))),
         shift_pt(shift_mm))

\* lines 321-371 with base_scale and (h_scale, v_scale) computed
transformation_scaled(src_width, src_height, target_rect, transform, base_scale, h_scale, v_scale) ==
    translate(
        rotated(scale(translate(Transformation, RNeg(RDiv(Num(src_width), Num(2))),
                                RNeg(RDiv(Num(src_height), Num(2)))),
                      final_scale(base_scale, h_scale, transform.h_flip),
                      final_scale(base_scale, v_scale, transform.v_flip)),
                flipped_rotation(transform)),
        final_position(
            centred(Num(target_rect[1]), Num(target_rect[3] - target_rect[1]),
                    RMul(RMul(Num(src_width), base_scale), RAbs(h_scale))),
            RDiv(Num(src_width), Num(2)), base_scale, h_scale, transform.h_shift_mm),
        final_position(
            centred(Num(target_rect[2]), Num(target_rect[4] - target_rect[2]),
                    RMul(RMul(Num(src_height), base_scale), RAbs(v_scale))),
            RDiv(Num(src_height), Num(2)), base_scale, v_scale, transform.v_shift_mm))

\* _merge_page_with_transform, lines 312-371: the matrix for a transform
\* that is given and is not the identity
transformation_with(src_width, src_height, target_rect, transform) ==
    transformation_scaled(src_width, src_height, target_rect, transform,
        fit_scale(src_width, src_height, target_rect),
        user_scale(transform)[1], user_scale(transform)[2])

\* lines 388-391: final_x (final_y) without a transform
fitted_position(origin, target_extent, fitted_extent) ==
    RAdd(centred(origin, target_extent, fitted_extent), RDiv(fitted_extent, Num(2)))

\* lines 378-392 with base_scale computed
transformation_fitted(src_width, src_height, target_rect, base_scale) ==
    IF RLess(RAbs(RSub(base_scale, Num(1))), <<1, 1000>>)
    THEN translate(Transformation, Num(target_rect[1]), Num(target_rect[2]))
    ELSE translate(scale(translate(Transformation, RNeg(RDiv(Num(src_width), Num(2))),
                                   RNeg(RDiv(Num(src_height), Num(2)))),
                         base_scale, base_scale),
                   fitted_position(Num(target_rect[1]),
                       Num(target_rect[3] - target_rect[1]),
                       RMul(Num(src_width), base_scale)),
                   fitted_position(Num(target_rect[2]),
                       Num(target_rect[4] - target_rect[2]),
                       RMul(Num(src_height), base_scale)))

\* _merge_page_with_transform, lines 372-392: the matrix without a transform
transformation_without(src_width, src_height, target_rect) ==
    transformation_fitted(src_width, src_height, target_rect,
        fit_scale(src_width, src_height, target_rect))

\* _merge_page_with_transform, lines 401-408: a value within 1e-10 of 0, 1
\* or -1 becomes that value.  A fraction of this model has a denominator
\* below 2^31, so it is within 1e-10 of an integer only when it is that
\* integer.
cleaned(value) ==
    IF value[1] = 0 THEN Num(0)
    ELSE IF RSub(value, Num(1))[1] = 0 THEN Num(1)
    ELSE IF RAdd(value, Num(1))[1] = 0 THEN Num(-1)
    ELSE value

\* _merge_page_with_transform, lines 302-410: the cleaned ctm
merge_ctm(src_width, src_height, target_rect, transform) ==
    LET transformation ==
            IF transform # NoTransform /\ ~is_identity(transform)
            THEN transformation_with(src_width, src_height, target_rect, transform)
            ELSE transformation_without(src_width, src_height, target_rect)
    IN  [k \in 1..6 |-> cleaned(transformation[k])]

\* an operator of a content stream with its operands
Op(name, operands) == [op |-> name, args |-> operands]

\* A plausible slip: the second restore is left out of the block.
new_content_one_restore(target_rect, ctm, xobj_name) ==
    <<Op("q", <<>>),
      Op("re", <<target_rect[1], target_rect[2],
                 target_rect[3] - target_rect[1], target_rect[4] - target_rect[2]>>),
      Op("W", <<>>),
      Op("n", <<>>),
      Op("q", <<>>),
      Op("cm", ctm),
      Op("Do", <<xobj_name>>),
      Op("Q", <<>>)>>

\* _merge_page_with_transform, lines 481-490: new_content
new_content(target_rect, ctm, xobj_name) ==
    <<Op("q", <<>>),
      Op("re", <<target_rect[1], target_rect[2],
                 target_rect[3] - target_rect[1], target_rect[4] - target_rect[2]>>),
      Op("W", <<>>),
      Op("n", <<>>),
      Op("q", <<>>),
      Op("cm", ctm),
      Op("Do", <<xobj_name>>),
      Op("Q", <<>>),
      Op("Q", <<>>)>>

\* _merge_page_with_transform, lines 470-507: the form is registered under
\* its name and the block is appended to the contents of the output page
with_placement(output_page, source_idx, target_rect, transform, ctm) ==
    [output_page EXCEPT
        !.xobjects = DictSet(@, source_idx, source_idx),
        !.contents = Append(@, [target_rect |-> target_rect,
                                xobj_name   |-> source_idx,
                                transform   |-> transform,
                                ctm         |-> ctm]),
        !.stream   = @ \o new_content(target_rect, ctm, source_idx)]

\* _merge_page_with_transform: the output page after the call.  A source
\* page without a content stream returns before anything is registered.
merge_page_with_transform(reader, output_page, source_idx, target_rect, transform) ==
    IF ~reader[source_idx + 1].has_contents THEN output_page
    ELSE with_placement(output_page, source_idx, target_rect, transform,
             merge_ctm(reader[source_idx + 1].width, reader[source_idx + 1].height,
                       target_rect, transform))

\* A plausible slip: a left member that is skipped ends the spread, so the
\* right member is not placed either.
place_booklet_spread_left_first(reader, output_page, left_idx, right_idx, width_pt, height_pt, left_transform, right_transform) ==
    LET half_width == width_pt \div 2
        with_left  ==
            merge_page_with_transform(reader, output_page, left_idx,
                <<0, 0, half_width, height_pt>>, left_transform)
    IN  IF ~IsSourcePage(reader, left_idx) THEN output_page
        ELSE IF right_idx # -1 /\ IsSourcePage(reader, right_idx)
        THEN merge_page_with_transform(reader, with_left, right_idx,
                 <<half_width, 0, width_pt, height_pt>>, right_transform)
        ELSE with_left

\* _place_booklet_spread; the halves are exact for the even widths used here
place_booklet_spread(reader, output_page, left_idx, right_idx, width_pt, height_pt, left_transform, right_transform) ==
    LET half_width == width_pt \div 2
        with_left  ==
            IF IsSourcePage(reader, left_idx)
            THEN merge_page_with_transform(reader, output_page, left_idx,
                     <<0, 0, half_width, height_pt>>, left_transform)
            ELSE output_page
    IN  IF right_idx # -1 /\ IsSourcePage(reader, right_idx)
        THEN merge_page_with_transform(reader, with_left, right_idx,
                 <<half_width, 0, width_pt, height_pt>>, right_transform)
        ELSE with_left

\* A plausible slip: the top page is given the whole sheet as its rectangle.
place_calendar_spread_top_full(reader, output_page, top_idx, bottom_idx, width_pt, height_pt, top_transform, bottom_transform) ==
    LET half_height == height_pt \div 2
        with_top    ==
            IF IsSourcePage(reader, top_idx)
            THEN merge_page_with_transform(reader, output_page, top_idx,
                     <<0, 0, width_pt, height_pt>>, top_transform)
            ELSE output_page
    IN  IF bottom_idx # -1 /\ IsSourcePage(reader, bottom_idx)
        THEN merge_page_with_transform(reader, with_top, bottom_idx,
                 <<0, 0, width_pt, half_height>>, bottom_transform)
        ELSE with_top

\* _place_calendar_spread; the halves are exact for the even heights used here
place_calendar_spread(reader, output_page, top_idx, bottom_idx, width_pt, height_pt, top_transform, bottom_transform) ==
    LET half_height == height_pt \div 2
        with_top    ==
            IF IsSourcePage(reader, top_idx)
            THEN merge_page_with_transform(reader, output_page, top_idx,
                     <<0, half_height, width_pt, height_pt>>, top_transform)
            ELSE output_page
    IN  IF bottom_idx # -1 /\ IsSourcePage(reader, bottom_idx)
        THEN merge_page_with_transform(reader, with_top, bottom_idx,
                 <<0, 0, width_pt, half_height>>, bottom_transform)
        ELSE with_top

\* _place_single_page
place_single_page(reader, output_page, page_idx, width_pt, height_pt, page_transform) ==
    IF IsSourcePage(reader, page_idx)
    THEN merge_page_with_transform(reader, output_page, page_idx,
             <<0, 0, width_pt, height_pt>>, page_transform)
    ELSE output_page

\* save_booklet, lines 72-150: the output page built for one layout entry
BuildOutputPage(reader, manager, entry, save_mode, width_pt, height_pt) ==
    LET idx_a       == EntryIndices(entry)[1]
        idx_b       == EntryIndices(entry)[2]
        output_page == create_blank_page(width_pt, height_pt)
    IN  IF save_mode = "booklet"
        THEN place_booklet_spread(reader, output_page, idx_a, idx_b, width_pt,
                 height_pt, TransformFor(manager, idx_a), TransformFor(manager, idx_b))
        ELSE IF save_mode = "calendar"
        THEN place_calendar_spread(reader, output_page, idx_a, idx_b, width_pt,
                 height_pt, TransformFor(manager, idx_a), TransformFor(manager, idx_b))
        ELSE place_single_page(reader, output_page, idx_a, width_pt, height_pt,
                 TransformFor(manager, idx_a))

\* A plausible slip: a sheet that received no placement is not added.
add_page_unless_blank(pages, output_page) ==
    IF output_page.contents = <<>> THEN pages ELSE Append(pages, output_page)

\* writer.add_page(output_page), line 151
add_page(pages, output_page) == Append(pages, output_page)

\* save_booklet, line 155: int(5 + ((i + 1) / total_pages) * 90); the floor
\* of the exact quotient is what the float expression gives for every
\* total_pages up to 39
SheetPercent(k, total_pages) == 5 + ((90 * k) \div total_pages)

\* save_booklet, lines 183-190: what the except handler returns
SaveFailed == [success |-> FALSE, error_message |-> "Save failed: ..."]

\* save_booklet, line 181
SaveSucceeded == [success |-> TRUE, error_message |-> "None"]

\* A plausible slip: the calendar sheet doubled in width instead of height.
SheetSizeWidthOnly(active_mode, width, height) ==
    IF active_mode = "booklet" \/ active_mode = "calendar"
    THEN <<width * 2, height>>
    ELSE <<width, height>>

\* BookletProcessor.save_booklet, lines 177-190: the sheet size for the mode
SheetSize(active_mode, width, height) ==
    IF active_mode = "booklet" THEN <<width * 2, height>>
    ELSE IF active_mode = "calendar" THEN <<width, height * 2>>
    ELSE <<width, height>>

-----------------------------------------------------------------------------
(* pdf_renderer.py: PDFRenderer, and BookletProcessor.render_page calling  *)
(* it.  A pixmap is [canvas_width, canvas_height, zoom, drawn]: drawn is   *)
(* the drawImage calls in order, each [page, transform, clip, x_offset,    *)
(* y_offset, width, height] in pixels, y growing downwards; clip is the    *)
(* rectangle (x, y, width, height) of setClipRect, <<>> without one.       *)

\* QPixmap(): the empty pixmap, returned for an index outside the layout
QPixmap == [canvas_width |-> 0, canvas_height |-> 0, zoom |-> Num(0), drawn |-> <<>>]

\* the least integer not below x
RCeil(x) == -((-x[1]) \div x[2])

\* _render_internal, lines 143-153: the canvas size
canvas_size(save_mode, zoom, page_width_pt, page_height_pt) ==
    IF save_mode = "booklet"
    THEN <<RTrunc(RMul(RMul(Num(page_width_pt), zoom), Num(2))),
           RTrunc(RMul(Num(page_height_pt), zoom))>>
    ELSE IF save_mode = "calendar"
    THEN <<RTrunc(RMul(Num(page_width_pt), zoom)),
           RTrunc(RMul(RMul(Num(page_height_pt), zoom), Num(2)))>>
    ELSE <<RTrunc(RMul(Num(page_width_pt), zoom)),
           RTrunc(RMul(Num(page_height_pt), zoom))>>

\* load_page(idx).get_pixmap(matrix): the size in pixels of the page at the
\* zoom; whole for the sizes and resolutions used here
page_pixmap_size(page, zoom) ==
    <<RTrunc(RMul(Num(page.width), zoom)), RTrunc(RMul(Num(page.height), zoom))>>

\* QImage.scaled(new_width, new_height, KeepAspectRatio): the size of the
\* image fitted into new_width x new_height
scaled_keeping_aspect(img_width, img_height, new_width, new_height) ==
    IF (new_height * img_width) \div img_height <= new_width
    THEN <<(new_height * img_width) \div img_height, new_height>>
    ELSE <<new_width, (new_width * img_height) \div img_width>>

\* _scale_image_to_fit, lines 466-475, with the scale computed
scaled_by(img_width, img_height, fit) ==
    scaled_keeping_aspect(img_width, img_height,
        RTrunc(RMul(Num(img_width), fit)), RTrunc(RMul(Num(img_height), fit)))

\* _scale_image_to_fit: the size of the scaled image
scale_image_to_fit(img_width, img_height, max_width, max_height) ==
    scaled_by(img_width, img_height,
        RMin(RDiv(Num(max_width), Num(img_width)),
             RDiv(Num(max_height), Num(img_height))))

\* QImage.transformed by a rotation: the bounding box of a w x h image
turned(w, h, rotation_deg) ==
    IF rotation_deg % 180 = 90 THEN <<h, w>> ELSE <<w, h>>

\* _apply_transform_to_image_no_shift: the size of the transformed image,
\* the bounding box of the image scaled along its own axes and then turned
apply_transform_to_image_no_shift(size, transform) ==
    IF /\ transform.rotation_deg = 0
       /\ ~transform.h_flip
       /\ ~transform.v_flip
       /\ transform.scale_percent = 100
       /\ transform.h_scale_percent = 100
       /\ transform.v_scale_percent = 100
    THEN size
    ELSE turned(RCeil(RMul(Num(size[1]), RAbs(user_scale(transform)[1]))),
                RCeil(RMul(Num(size[2]), RAbs(user_scale(transform)[2]))),
                transform.rotation_deg)

\* A plausible slip: the vertical shift added to y_offset without the sign
\* change, so that a positive shift moves the image down.
shift_px_unsigned(transform, zoom) ==
    IF transform = NoTransform THEN <<0, 0>>
    ELSE LET mm_to_px == RMul(RDiv(Num(72), <<127, 5>>), zoom)
         IN  <<RTrunc(RMul(Num(transform.h_shift_mm), mm_to_px)),
               RTrunc(RMul(Num(transform.v_shift_mm), mm_to_px))>>

\* _render_booklet_spread, lines 245-250 (and the like): h_shift_px, v_shift_px
shift_px(transform, zoom) ==
    IF transform = NoTransform THEN <<0, 0>>
    ELSE LET mm_to_px == RMul(RDiv(Num(72), <<127, 5>>), zoom)
         IN  <<RTrunc(RMul(Num(transform.h_shift_mm), mm_to_px)),
               -RTrunc(RMul(Num(transform.v_shift_mm), mm_to_px))>>

\* _scale_image_to_fit applied to an image of the size pix
fitted_size(pix, max_width, max_height) ==
    scale_image_to_fit(pix[1], pix[2], max_width, max_height)

\* "if left_transform: left_img = _apply_transform_to_image_no_shift(...)"
transformed_size(fitted, transform) ==
    IF transform # NoTransform
    THEN apply_transform_to_image_no_shift(fitted, transform)
    ELSE fitted

\* the offsets of an image of the size scaled, and painter.drawImage
draw_image(idx, transform, clip, cell_x, cell_y, max_width, max_height, scaled, shift) ==
    [page      |-> idx,
     transform |-> transform,
     clip      |-> clip,
     x_offset  |-> cell_x + ((max_width - scaled[1]) \div 2) + shift[1],
     y_offset  |-> cell_y + ((max_height - scaled[2]) \div 2) + shift[2],
     width     |-> scaled[1],
     height    |-> scaled[2]]

\* the image of one member: scaled to fit max_width x max_height, transformed,
\* centred in the cell at (cell_x, cell_y), shifted, and drawn under clip
draw_member(reader, idx, transform, zoom, cell_x, cell_y, max_width, max_height, clip) ==
    draw_image(idx, transform, clip, cell_x, cell_y, max_width, max_height,
        transformed_size(fitted_size(page_pixmap_size(reader[idx + 1], zoom),
                                     max_width, max_height),
                         transform),
        shift_px(transform, zoom))

\* _render_booklet_spread: the drawImage calls
render_booklet_spread(reader, zoom, left_idx, right_idx, canvas_width, canvas_height, left_transform, right_transform) ==
    LET half_width == canvas_width \div 2
        left  == IF IsSourcePage(reader, left_idx)
                 THEN <<draw_member(reader, left_idx, left_transform, zoom, 0, 0,
                            half_width, canvas_height,
                            <<0, 0, half_width, canvas_height>>)>>
                 ELSE <<>>
        right == IF right_idx # -1 /\ IsSourcePage(reader, right_idx)
                 THEN <<draw_member(reader, right_idx, right_transform, zoom,
                            half_width, 0, half_width, canvas_height,
                            <<half_width, 0, half_width, canvas_height>>)>>
                 ELSE <<>>
    IN  left \o right

\* _render_calendar_spread: the drawImage calls
render_calendar_spread(reader, zoom, top_idx, bottom_idx, canvas_width, canvas_height, top_transform, bottom_transform) ==
    LET half_height == canvas_height \div 2
        top    == IF IsSourcePage(reader, top_idx)
                  THEN <<draw_member(reader, top_idx, top_transform, zoom, 0, 0,
                             canvas_width, half_height,
                             <<0, 0, canvas_width, half_height>>)>>
                  ELSE <<>>
        bottom == IF bottom_idx # -1 /\ IsSourcePage(reader, bottom_idx)
                  THEN <<draw_member(reader, bottom_idx, bottom_transform, zoom,
                             0, half_height, canvas_width, half_height,
                             <<0, half_height, canvas_width, half_height>>)>>
                  ELSE <<>>
    IN  top \o bottom

\* _render_single_page: the drawImage call
render_single_page(reader, zoom, page_idx, canvas_width, canvas_height, page_transform) ==
    IF IsSourcePage(reader, page_idx)
    THEN <<draw_member(reader, page_idx, page_transform, zoom, 0, 0,
               canvas_width, canvas_height, <<>>)>>
    ELSE <<>>

\* _render_internal, lines 155-201: the canvas painted by the renderer of
\* the mode
render_on_canvas(reader, left_idx, right_idx, save_mode, zoom, canvas, left_transform, right_transform) ==
    [canvas_width  |-> canvas[1],
     canvas_height |-> canvas[2],
     zoom          |-> zoom,
     drawn         |->
         IF save_mode = "booklet"
         THEN render_booklet_spread(reader, zoom, left_idx, right_idx,
                  canvas[1], canvas[2], left_transform, right_transform)
         ELSE IF save_mode = "calendar"
         THEN render_calendar_spread(reader, zoom, left_idx, right_idx,
                  canvas[1], canvas[2], left_transform, right_transform)
         ELSE render_single_page(reader, zoom, left_idx, canvas[1], canvas[2],
                  left_transform)]

\* _render_internal, lines 143-201, with zoom computed
render_at_zoom(reader, left_idx, right_idx, save_mode, zoom, page_width_pt, page_height_pt, left_transform, right_transform) ==
    render_on_canvas(reader, left_idx, right_idx, save_mode, zoom,
        canvas_size(save_mode, zoom, page_width_pt, page_height_pt),
        left_transform, right_transform)

\* _render_internal: the pixmap of a slot
render_internal(reader, left_idx, right_idx, save_mode, dpi, page_width_pt, page_height_pt, left_transform, right_transform) ==
    render_at_zoom(reader, left_idx, right_idx, save_mode, RDiv(Num(dpi), Num(72)),
        page_width_pt, page_height_pt, left_transform, right_transform)

\* BookletProcessor.render_page
render_page(reader, planner, manager, width, height, page_index, dpi) ==
    IF page_index < 0 \/ page_index >= get_layout_count(planner) THEN QPixmap
    ELSE LET idx_a == get_page_indices(planner, page_index)[1]
             idx_b == get_page_indices(planner, page_index)[2]
         IN  render_internal(reader, idx_a, idx_b, planner.active_mode, dpi,
                 width, height, TransformFor(manager, idx_a),
                 TransformFor(manager, idx_b))

-----------------------------------------------------------------------------
(* Each specification below runs one component; the objects of the others *)
(* stay as constructed for an empty document.                              *)

LayoutIdle ==
    /\ layout = BookletLayout(0)
    /\ layout_op = "__init__"
    /\ layout_arg = 0
    /\ layout_ret = <<>>
    /\ indices_ret = <<-1, -1>>

TransformIdle ==
    /\ transform_manager = PageTransformManager(0)
    /\ tm_op = "__init__"
    /\ tm_arg = 0
    /\ tm_ret = NoTransform

SaveIdle ==
    /\ layout_map = <<>>
    /\ mode = "booklet"
    /\ output_width_pt = 0
    /\ output_height_pt = 0
    /\ downscale_images = FALSE
    /\ writer = <<>>
    /\ loop_i = 0
    /\ progress = <<>>
    /\ pc = "idle"
    /\ result = SaveFailed

ProcessorIdle ==
    /\ reader_pages = <<>>
    /\ output_width = 0
    /\ output_height = 0
    /\ pixmap = QPixmap

\* MainWindow.saving_worker = None
NoWorker == [none |-> TRUE]

\* GeneralOptionsWidget.get_output_size: "automatic" is the triple
\* <<0, 0, "automatic">> here, a custom size is (width, height, unit)
Automatic == <<0, 0, "automatic">>

\* MainWindow.__init__ and _reset_pdf_state: no document, no worker
WindowIdle ==
    /\ is_pdf_open = FALSE
    /\ selected_mode = "booklet"
    /\ selected_output_size = Automatic
    /\ current_booklet_page = 0
    /\ current_preview_dpi = 72
    /\ tabs_enabled = FALSE
    /\ menu_enabled = TRUE
    /\ control_enabled = FALSE
    /\ saving_thread = "none"
    /\ saving_worker = NoWorker
    /\ running_saves = 0
    /\ processing_thread = "none"

\* where run() is: the statement it is at, and the locals of _run_load_pdf
At(at, total_pages, i) == [at |-> at, total_pages |-> total_pages, i |-> i]

\* no BookletWorker has been constructed
WorkerIdle ==
    /\ worker = NoWorker
    /\ worker_pc = At("none", 0, 0)
    /\ signals = <<>>

\* _merge_page_with_transform is not being looked into
MergeIdle ==
    /\ raw_ctm = <<>>
    /\ cleaned_ctm = <<>>

-----------------------------------------------------------------------------
(* The planner as a state machine: construction, then any sequence of calls *)

InitLayout ==
    /\ \E n \in 0..MaxPages : layout = BookletLayout(n)
    /\ layout_op = "__init__"
    /\ layout_arg = 0
    /\ layout_ret = <<>>
    /\ indices_ret = <<-1, -1>>
    /\ TransformIdle
    /\ ProcessorIdle
    /\ SaveIdle
    /\ WindowIdle
    /\ WorkerIdle
    /\ MergeIdle

GenerateBookletLayout ==
    /\ layout' = generate_booklet_layout(layout)
    /\ layout_op' = "generate_booklet_layout"
    /\ layout_ret' = layout'.active_layout
    /\ layout_arg' = 0
    /\ indices_ret' = <<-1, -1>>
    /\ UNCHANGED <<transformVars, processorVars, windowVars, workerVars, saveVars,
                   mergeVars>>

GenerateCalendarLayout ==
    /\ layout' = generate_calendar_layout(layout)
    /\ layout_op' = "generate_calendar_layout"
    /\ layout_ret' = layout'.active_layout
    /\ layout_arg' = 0
    /\ indices_ret' = <<-1, -1>>
    /\ UNCHANGED <<transformVars, processorVars, windowVars, workerVars, saveVars,
                   mergeVars>>

GenerateSinglePageLayout ==
    /\ layout' = generate_single_page_layout(layout)
    /\ layout_op' = "generate_single_page_layout"
    /\ layout_ret' = layout'.active_layout
    /\ layout_arg' = 0
    /\ indices_ret' = <<-1, -1>>
    /\ UNCHANGED <<transformVars, processorVars, windowVars, workerVars, saveVars,
                   mergeVars>>

GetPageIndices ==
    \E layout_index \in -2..(Len(layout.active_layout) + 1) :
        /\ indices_ret' = get_page_indices(layout, layout_index)
        /\ layout_op' = "get_page_indices"
        /\ layout_arg' = layout_index
        /\ layout_ret' = <<>>
        /\ UNCHANGED <<layout, transformVars, processorVars, windowVars, workerVars, saveVars,
                   mergeVars>>

NextLayout ==
    \/ GenerateBookletLayout
    \/ GenerateCalendarLayout
    \/ GenerateSinglePageLayout
    \/ GetPageIndices

LayoutSpec == InitLayout /\ [][NextLayout]_vars

-----------------------------------------------------------------------------
(* The transform store as a state machine: construction, then any sequence *)
(* of calls, with the transforms a caller passes drawn from two samples   *)

\* values of a default transform: create_transform_from_gui(...)
SampleA ==
    [h_shift_mm |-> 5, v_shift_mm |-> -2, scale_percent |-> 50,
     rotation_deg |-> 90, h_flip |-> TRUE, v_flip |-> FALSE,
     h_scale_percent |-> 200, v_scale_percent |-> 100]

\* values of a page transform: create_transform_from_gui(...)
SampleB ==
    [h_shift_mm |-> 3, v_shift_mm |-> 4, scale_percent |-> 200,
     rotation_deg |-> 270, h_flip |-> TRUE, v_flip |-> TRUE,
     h_scale_percent |-> 50, v_scale_percent |-> 150]

\* the transforms the callers pass
Transforms == {SampleA, SampleB}

\* the domain strings the callers pass ("none" stands for any other string)
Domains == {"this", "all", "even", "odd", "none"}

\* the page indices the callers pass: every source page, one below, one past
PageArgs(self) == -1..self.total_pages

InitTransform ==
    /\ \E n \in 0..MaxTotalPages : transform_manager = PageTransformManager(n)
    /\ tm_op = "__init__"
    /\ tm_arg = 0
    /\ tm_ret = NoTransform
    /\ LayoutIdle
    /\ ProcessorIdle
    /\ SaveIdle
    /\ WindowIdle
    /\ WorkerIdle
    /\ MergeIdle

SetGlobalTransform ==
    \E transform \in Transforms :
        /\ transform_manager' = set_global_transform(transform_manager, transform)
        /\ tm_op' = "set_global_transform"
        /\ tm_arg' = 0
        /\ tm_ret' = NoTransform
        /\ UNCHANGED <<layoutVars, processorVars, windowVars, workerVars, saveVars,
                   mergeVars>>

SetPageTransform ==
    \E page_index \in PageArgs(transform_manager), transform \in Transforms,
       domain \in Domains :
        /\ transform_manager' =
               set_page_transform(transform_manager, page_index, transform, domain)
        /\ tm_op' = "set_page_transform"
        /\ tm_arg' = 0
        /\ tm_ret' = NoTransform
        /\ UNCHANGED <<layoutVars, processorVars, windowVars, workerVars, saveVars,
                   mergeVars>>

\* A plausible slip: the compounded transform memoised in page_transforms.
GetTransformForPageCaching ==
    \E page_index \in PageArgs(transform_manager) :
        /\ tm_ret' = get_transform_for_page(transform_manager, page_index)
        /\ transform_manager' =
               [transform_manager EXCEPT
                    !.page_transforms = DictSet(@, page_index, tm_ret')]
        /\ tm_op' = "get_transform_for_page"
        /\ tm_arg' = page_index
        /\ UNCHANGED <<layoutVars, processorVars, windowVars, workerVars, saveVars,
                   mergeVars>>

GetTransformForPage ==
    \E page_index \in PageArgs(transform_manager) :
        /\ tm_ret' = get_transform_for_page(transform_manager, page_index)
        /\ tm_op' = "get_transform_for_page"
        /\ tm_arg' = page_index
        /\ UNCHANGED <<transform_manager, layoutVars, processorVars, windowVars, workerVars, saveVars,
                   mergeVars>>

ClearPageTransform ==
    \E page_index \in PageArgs(transform_manager) :
        /\ transform_manager' = clear_page_transform(transform_manager, page_index)
        /\ tm_op' = "clear_page_transform"
        /\ tm_arg' = 0
        /\ tm_ret' = NoTransform
        /\ UNCHANGED <<layoutVars, processorVars, windowVars, workerVars, saveVars,
                   mergeVars>>

ClearDomainTransforms ==
    /\ transform_manager' = clear_domain_transforms(transform_manager)
    /\ tm_op' = "clear_domain_transforms"
    /\ tm_arg' = 0
    /\ tm_ret' = NoTransform
    /\ UNCHANGED <<layoutVars, processorVars, windowVars, workerVars, saveVars,
                   mergeVars>>

ClearAllPageTransforms ==
    /\ transform_manager' = clear_all_page_transforms(transform_manager)
    /\ tm_op' = "clear_all_page_transforms"
    /\ tm_arg' = 0
    /\ tm_ret' = NoTransform
    /\ UNCHANGED <<layoutVars, processorVars, windowVars, workerVars, saveVars,
                   mergeVars>>

Reset ==
    /\ transform_manager' = reset(transform_manager)
    /\ tm_op' = "reset"
    /\ tm_arg' = 0
    /\ tm_ret' = NoTransform
    /\ UNCHANGED <<layoutVars, processorVars, windowVars, workerVars, saveVars,
                   mergeVars>>

NextTransform ==
    \/ SetGlobalTransform
    \/ SetPageTransform
    \/ GetTransformForPage
    \/ ClearPageTransform
    \/ ClearDomainTransforms
    \/ ClearAllPageTransforms
    \/ Reset

TransformSpec == InitTransform /\ [][NextTransform]_vars

-----------------------------------------------------------------------------
(* The save pass as a state machine: a processor holding an open document, *)
(* its layout in one of the three modes and its transform manager; then    *)
(* BookletProcessor.save_booklet and PDFSaver.save_booklet, one output     *)
(* sheet per step.  What the file system and pypdf may do wrong (the       *)
(* source unreadable, a page object that raises, the downsampler raising,  *)
(* the destination unwritable) is chosen at the step where it would raise. *)

\* the one-page output sizes (width, height) in points of the model
PageSizes == {<<600, 800>>, <<800, 600>>}

\* the mediabox sizes (width, height) in points of the source pages
MediaBoxes == {<<300, 400>>, <<600, 800>>, <<600, 400>>}

\* the source documents of n pages: one mediabox for the document, each page
\* with or without a content stream
SourceDocuments(n) ==
    UNION {[1..n -> {[has_contents |-> TRUE, width |-> box[1], height |-> box[2]],
                     [has_contents |-> FALSE, width |-> box[1], height |-> box[2]]}]
           : box \in MediaBoxes}

\* the layout object of a processor whose mode the user has chosen
LayoutInMode(n, chosen) ==
    IF chosen = "booklet" THEN generate_booklet_layout(BookletLayout(n))
    ELSE IF chosen = "calendar" THEN generate_calendar_layout(BookletLayout(n))
    ELSE generate_single_page_layout(BookletLayout(n))

\* the transform managers of the model: untouched, with a default, with a
\* default and an override of the first page
ManagersFor(n) ==
    {PageTransformManager(n),
     set_global_transform(PageTransformManager(n), SampleA),
     set_page_transform(set_global_transform(PageTransformManager(n), SampleA),
                        0, SampleB, "this")}

\* the transform managers of a save pass: those, and two whose first page
\* resolves to both mirrors (SampleB alone) and to no mirror (SampleA twice)
SaveManagersFor(n) ==
    ManagersFor(n)
    \cup {set_global_transform(PageTransformManager(n), SampleB),
          set_page_transform(set_global_transform(PageTransformManager(n), SampleA),
                             0, SampleA, "this")}

InitSave ==
    /\ \E n \in 0..MaxSourcePages :
           /\ reader_pages \in SourceDocuments(n)
           /\ \E chosen \in {"booklet", "calendar", "single"} :
                  layout = LayoutInMode(n, chosen)
           /\ transform_manager \in SaveManagersFor(n)
    /\ \E size \in PageSizes : output_width = size[1] /\ output_height = size[2]
    /\ pixmap = QPixmap
    /\ layout_op = IF layout.active_mode = "booklet" THEN "generate_booklet_layout"
                   ELSE IF layout.active_mode = "calendar" THEN "generate_calendar_layout"
                   ELSE "generate_single_page_layout"
    /\ layout_arg = 0
    /\ layout_ret = layout.active_layout
    /\ indices_ret = <<-1, -1>>
    /\ tm_op = "__init__"
    /\ tm_arg = 0
    /\ tm_ret = NoTransform
    /\ SaveIdle
    /\ WindowIdle
    /\ WorkerIdle
    /\ MergeIdle

\* A plausible slip: the error is reported but the pass is not ended.
AbortReportOnly ==
    /\ progress' = Append(progress, 0)
    /\ UNCHANGED <<result, pc>>

\* the except handler of save_booklet: the error is reported and returned
Abort ==
    /\ progress' = Append(progress, 0)
    /\ result' = SaveFailed
    /\ pc' = "done"

\* BookletProcessor.save_booklet up to the call, and PDFSaver.save_booklet
\* up to the loop
SaveStart ==
    /\ pc = "idle"
    /\ layout_map' = layout.active_layout
    /\ mode' = layout.active_mode
    /\ output_width_pt' = SheetSize(layout.active_mode, output_width, output_height)[1]
    /\ output_height_pt' = SheetSize(layout.active_mode, output_width, output_height)[2]
    /\ \E downscale \in BOOLEAN : downscale_images' = downscale
    /\ \E opened \in BOOLEAN :
           IF opened
           THEN /\ progress' = <<0, 5>>
                /\ pc' = "loop"
                /\ UNCHANGED result
           ELSE /\ progress' = <<0, 0>>
                /\ result' = SaveFailed
                /\ pc' = "done"
    /\ writer' = <<>>
    /\ loop_i' = 0
    /\ UNCHANGED <<layoutVars, transformVars, processorVars, windowVars, workerVars,
                   mergeVars>>

\* one iteration of the loop of save_booklet
BuildSheet ==
    /\ pc = "loop"
    /\ loop_i < Len(layout_map)
    /\ LET entry       == layout_map[loop_i + 1]
           total_pages == Len(layout_map)
           output_page == BuildOutputPage(reader_pages, transform_manager, entry,
                              mode, output_width_pt, output_height_pt)
           touches     == \E k \in {EntryIndices(entry)[1], EntryIndices(entry)[2]} :
                              IsSourcePage(reader_pages, k)
       IN  \E raised \in {FALSE, touches} :
               IF raised
               THEN /\ Abort
                    /\ UNCHANGED <<writer, loop_i>>
               ELSE /\ writer' = add_page(writer, output_page)
                    /\ progress' = Append(progress, SheetPercent(loop_i + 1, total_pages))
                    /\ loop_i' = loop_i + 1
                    /\ UNCHANGED <<pc, result>>
    /\ UNCHANGED <<layout_map, mode, output_width_pt, output_height_pt, downscale_images>>
    /\ UNCHANGED <<layoutVars, transformVars, processorVars, windowVars, workerVars,
                   mergeVars>>

\* save_booklet after the loop: downsampling if asked for, the write, the return
SaveFinish ==
    /\ pc = "loop"
    /\ loop_i = Len(layout_map)
    /\ \E downsampled \in BOOLEAN, written \in BOOLEAN :
           IF downscale_images /\ ~downsampled
           THEN /\ progress' = progress \o <<92, 0>>
                /\ result' = SaveFailed
           ELSE IF ~written
           THEN /\ progress' = progress \o (IF downscale_images THEN <<92>> ELSE <<>>)
                                        \o <<95, 0>>
                /\ result' = SaveFailed
           ELSE /\ progress' = progress \o (IF downscale_images THEN <<92>> ELSE <<>>)
                                        \o <<95, 100>>
                /\ result' = SaveSucceeded
    /\ pc' = "done"
    /\ UNCHANGED <<layout_map, mode, output_width_pt, output_height_pt,
                   downscale_images, writer, loop_i>>
    /\ UNCHANGED <<layoutVars, transformVars, processorVars, windowVars, workerVars,
                   mergeVars>>

NextSave ==
    \/ SaveStart
    \/ BuildSheet
    \/ SaveFinish

SaveSpec == InitSave /\ [][NextSave]_vars

-----------------------------------------------------------------------------
(* The planner and the saver used directly, with any argument their        *)
(* signatures admit: BookletLayout(total_pages) for any integer, and the   *)
(* static method PDFSaver.save_booklet for any layout map and mode string. *)

\* the page counts below zero given to BookletLayout go down to -MaxNegative
MaxNegative == 2

\* largest page count of a source PDF given to the saver directly
MaxEmitPages == 2

\* the mode strings given to the saver; "poster" is none of the three modes
EmitModes == {"booklet", "calendar", "single", "poster"}

\* the layout maps given to the saver: those of the planner for a short
\* document, and maps that name a page twice in one slot
EmitLayoutMaps ==
    {<<>>,
     <<(<<0, 0>>)>>,
     <<(<<0, 1>>), (<<1, 1>>)>>,
     <<(<<0>>), (<<1>>)>>,
     <<(<<3, 0>>), (<<1, 2>>)>>}

\* the sheet sizes (width, height) in points given to the saver
EmitSheetSizes == {<<1200, 800>>}

InitEmit ==
    /\ \E n \in 0..MaxEmitPages :
           /\ reader_pages \in SourceDocuments(n)
           /\ transform_manager = PageTransformManager(n)
    /\ \E total_pages \in (-MaxNegative)..1 : layout = BookletLayout(total_pages)
    /\ layout_op = "__init__"
    /\ layout_arg = 0
    /\ layout_ret = <<>>
    /\ indices_ret = <<-1, -1>>
    /\ tm_op = "__init__"
    /\ tm_arg = 0
    /\ tm_ret = NoTransform
    /\ output_width = 0
    /\ output_height = 0
    /\ pixmap = QPixmap
    /\ SaveIdle
    /\ WindowIdle
    /\ WorkerIdle
    /\ MergeIdle

\* PDFSaver.save_booklet called with its own arguments, up to the loop
EmitStart ==
    /\ pc = "idle"
    /\ layout_map' \in EmitLayoutMaps
    /\ mode' \in EmitModes
    /\ \E size \in EmitSheetSizes :
           /\ output_width_pt' = size[1]
           /\ output_height_pt' = size[2]
    /\ downscale_images' \in BOOLEAN
    /\ \E opened \in BOOLEAN :
           IF opened
           THEN /\ progress' = <<0, 5>>
                /\ pc' = "loop"
                /\ UNCHANGED result
           ELSE /\ progress' = <<0, 0>>
                /\ result' = SaveFailed
                /\ pc' = "done"
    /\ writer' = <<>>
    /\ loop_i' = 0
    /\ UNCHANGED <<layoutVars, transformVars, processorVars, windowVars, workerVars,
                   mergeVars>>

NextEmit ==
    \/ GenerateBookletLayout
    \/ GenerateCalendarLayout
    \/ GenerateSinglePageLayout
    \/ EmitStart
    \/ BuildSheet
    \/ SaveFinish

EmitSpec == InitEmit /\ [][NextEmit]_vars

-----------------------------------------------------------------------------
(* The preview and the save pass of one processor: render_page for any     *)
(* slot and resolution of the preview, and the save pass, in any order.    *)

\* largest page count of a source PDF that is previewed
MaxPreviewPages == 2

\* the resolutions of the preview
Dpis == {72, 96, 150}

\* the mediabox sizes (width, height) in points of the previewed documents,
\* whole numbers of pixels at every resolution of Dpis
PreviewBoxes == {<<360, 480>>, <<480, 360>>}

\* the previewed documents of n pages
PreviewDocuments(n) ==
    UNION {[1..n -> {[has_contents |-> TRUE, width |-> box[1], height |-> box[2]]}]
           : box \in PreviewBoxes}

InitPreview ==
    /\ \E n \in 0..MaxPreviewPages :
           /\ reader_pages \in PreviewDocuments(n)
           /\ \E chosen \in {"booklet", "calendar", "single"} :
                  layout = LayoutInMode(n, chosen)
           /\ transform_manager \in ManagersFor(n)
    /\ \E size \in PageSizes : output_width = size[1] /\ output_height = size[2]
    /\ pixmap = QPixmap
    /\ layout_op = IF layout.active_mode = "booklet" THEN "generate_booklet_layout"
                   ELSE IF layout.active_mode = "calendar" THEN "generate_calendar_layout"
                   ELSE "generate_single_page_layout"
    /\ layout_arg = 0
    /\ layout_ret = layout.active_layout
    /\ indices_ret = <<-1, -1>>
    /\ tm_op = "__init__"
    /\ tm_arg = 0
    /\ tm_ret = NoTransform
    /\ SaveIdle
    /\ WindowIdle
    /\ WorkerIdle
    /\ MergeIdle

\* BookletProcessor.render_page; PyMuPDF or Qt raising inside
\* _render_internal gives the empty pixmap
RenderPage ==
    /\ \E page_index \in (-1)..Len(layout.active_layout), dpi \in Dpis, raised \in BOOLEAN :
           pixmap' = IF raised THEN QPixmap
                     ELSE render_page(reader_pages, layout, transform_manager,
                              output_width, output_height, page_index, dpi)
    /\ UNCHANGED <<reader_pages, output_width, output_height>>
    /\ UNCHANGED <<layoutVars, transformVars, saveVars, windowVars, workerVars,
                   mergeVars>>

NextPreview ==
    \/ RenderPage
    \/ SaveStart
    \/ BuildSheet
    \/ SaveFinish

PreviewSpec == InitPreview /\ [][NextPreview]_vars

-----------------------------------------------------------------------------
(* gui/main_window.py: MainWindow with a document open, and the worker     *)
(* thread of booklet_worker.py that _perform_save starts.  The GUI thread  *)
(* runs one handler at a time; the worker thread runs the save pass, one    *)
(* output sheet per step, and the handlers of the GUI thread run between    *)
(* its steps.  What the widgets hold when a handler reads them (the values  *)
(* of a transform tab, the checked domain, the side selected in the         *)
(* preview) is an input of the handler.                                     *)

\* largest page count of the document open in the window
MaxWindowPages == 2

\* the documents of n pages open in the window
WindowDocuments(n) ==
    {[i \in 1..n |-> [has_contents |-> TRUE, width |-> 360, height |-> 480]]}

\* the custom output sizes (width, height, unit) of the General Options tab
WindowOutputSizes == {<<5, 7, "in">>}

\* what global_options_widget.get_transformations() gives
GlobalOptionValues == {SampleA}

\* what page_options_widget.get_transformations() gives
PageOptionValues == {SampleB}

\* what advanced_options_widget.get_options() gives for "downscale"
DownscaleOptions == {FALSE}

\* current_selected_side ("None" for None)
SelectedSides == {"None", "Left", "Right", "Whole"}

\* what _on_page_transform_changed reads with a domain checked: the domain
\* and, for "this", current_selected_booklet_page and current_selected_side
PageOptionSelections(slots) ==
    {<<"even", -1, "None">>, <<"odd", -1, "None">>}
        \cup {<<"this", slot, side>> : slot \in (-1)..(slots - 1), side \in SelectedSides}

\* PDFRenderer.get_page_size_mm for one length: millimetres rounded to two
\* decimals, counted in hundredths
page_size_mm(points) == (points * 2540 * 2 + 72) \div 144

\* BookletProcessor.set_output_size, lines 246-248: the size of the first
\* source page as get_page_size_mm gave it, in points again.  The pages of
\* the documents opened here measure whole hundredths of a millimetre that
\* are whole points, so the quotient is exact.
original_size_pt(reader) ==
    <<(page_size_mm(reader[1].width) * 72) \div 2540,
      (page_size_mm(reader[1].height) * 72) \div 2540>>

\* BookletProcessor.set_output_size for "automatic" with the orientation
\* processing_finished_handler selected (that of the page: no swap), and for
\* a custom size in inches: the one-page size (width, height) in points
set_output_size(original, output_size) ==
    IF output_size[3] = "automatic" THEN original
    ELSE <<output_size[1] * 72, output_size[2] * 72>>

\* _update_preview_widget, "Regenerate layout in processor"
regenerate_layout(planner, chosen) ==
    IF chosen = "booklet" THEN generate_booklet_layout(planner)
    ELSE IF chosen = "calendar" THEN generate_calendar_layout(planner)
    ELSE generate_single_page_layout(planner)

\* the name of the generate_* method that regenerate_layout calls
regenerate_layout_op(chosen) ==
    IF chosen = "booklet" THEN "generate_booklet_layout"
    ELSE IF chosen = "calendar" THEN "generate_calendar_layout"
    ELSE "generate_single_page_layout"

\* processing_finished_handler has run, and the user has chosen a mode and a
\* custom size on the General Options tab: the document is open, everything
\* is enabled, slot 0 is shown at 72 dpi, no save has been started
InitWindow ==
    /\ \E n \in 1..MaxWindowPages :
           /\ reader_pages \in WindowDocuments(n)
           /\ transform_manager = PageTransformManager(n)
           /\ \E chosen \in {"booklet", "calendar", "single"} :
                  /\ selected_mode = chosen
                  /\ layout = LayoutInMode(n, chosen)
    /\ selected_output_size \in WindowOutputSizes
    /\ output_width = set_output_size(original_size_pt(reader_pages),
                                      selected_output_size)[1]
    /\ output_height = set_output_size(original_size_pt(reader_pages),
                                       selected_output_size)[2]
    /\ current_booklet_page = 0
    /\ current_preview_dpi = 72
    /\ pixmap = render_page(reader_pages, layout, transform_manager,
                    output_width, output_height, 0, 72)
    /\ layout_op = regenerate_layout_op(selected_mode)
    /\ layout_arg = 0
    /\ layout_ret = layout.active_layout
    /\ indices_ret = <<-1, -1>>
    /\ tm_op = "__init__"
    /\ tm_arg = 0
    /\ tm_ret = NoTransform
    /\ SaveIdle
    /\ is_pdf_open = TRUE
    /\ tabs_enabled = TRUE
    /\ menu_enabled = TRUE
    /\ control_enabled = TRUE
    /\ saving_thread = "none"
    /\ saving_worker = NoWorker
    /\ running_saves = 0
    /\ processing_thread = "none"
    /\ WorkerIdle
    /\ MergeIdle

\* _cleanup_thread("saving_thread", "saving_worker") returns: wait() lets
\* the window go on only when the thread's run() has returned, and a thread
\* told to quit then stops
cleanup_thread_returns == saving_thread = "running" => pc = "done"

\* _cleanup_thread: the threads of _perform_save still alive when it returns
cleanup_thread == IF saving_thread = "none" THEN running_saves ELSE running_saves - 1

\* A plausible slip: _perform_save without the two setEnabled(False) and with
\* a _cleanup_thread that only drops the references.
PerformSaveUnguarded ==
    /\ is_pdf_open
    /\ menu_enabled \/ control_enabled
    /\ saving_thread' = "running"
    /\ running_saves' = running_saves + 1
    /\ \E downscale \in DownscaleOptions :
           saving_worker' = [output_size |-> selected_output_size,
                             downscale   |-> downscale]
    /\ UNCHANGED saveVars
    /\ UNCHANGED <<is_pdf_open, selected_mode, selected_output_size,
                   current_booklet_page, current_preview_dpi, tabs_enabled,
                   menu_enabled, control_enabled, processing_thread>>
    /\ UNCHANGED <<layoutVars, transformVars, processorVars, workerVars,
                   mergeVars>>

\* save_pdf_action_method or save_as_action_method reaching _perform_save,
\* from the File menu or from the control widget; the worker it creates has
\* not run yet
PerformSave ==
    /\ is_pdf_open
    /\ menu_enabled \/ control_enabled
    /\ cleanup_thread_returns
    /\ menu_enabled' = FALSE
    /\ control_enabled' = FALSE
    /\ saving_thread' = "running"
    /\ running_saves' = cleanup_thread + 1
    /\ \E downscale \in DownscaleOptions :
           saving_worker' = [output_size |-> selected_output_size,
                             downscale   |-> downscale]
    /\ UNCHANGED saveVars
    /\ UNCHANGED <<is_pdf_open, selected_mode, selected_output_size,
                   current_booklet_page, current_preview_dpi, tabs_enabled,
                   processing_thread>>
    /\ UNCHANGED <<layoutVars, transformVars, processorVars, workerVars,
                   mergeVars>>

\* the worker thread: BookletWorker._run_save_booklet, lines 90-91, the
\* output size the window gave the worker written into the processor
WorkerSetOutputSize ==
    /\ saving_thread = "running"
    /\ pc = "idle"
    /\ output_width' = set_output_size(original_size_pt(reader_pages),
                                       saving_worker.output_size)[1]
    /\ output_height' = set_output_size(original_size_pt(reader_pages),
                                        saving_worker.output_size)[2]
    /\ pc' = "sized"
    /\ UNCHANGED <<layout_map, mode, output_width_pt, output_height_pt,
                   downscale_images, writer, loop_i, progress, result>>
    /\ UNCHANGED <<reader_pages, pixmap>>
    /\ UNCHANGED <<layoutVars, transformVars, windowVars, workerVars, mergeVars>>

\* the worker thread: BookletProcessor.save_booklet, lines 175-189, the
\* sheet size from the mode and the output size the processor holds now
WorkerSheetSize ==
    /\ saving_thread = "running"
    /\ pc = "sized"
    /\ output_width_pt' = SheetSize(layout.active_mode, output_width, output_height)[1]
    /\ output_height_pt' = SheetSize(layout.active_mode, output_width, output_height)[2]
    /\ pc' = "dims"
    /\ UNCHANGED <<layout_map, mode, downscale_images, writer, loop_i, progress,
                   result>>
    /\ UNCHANGED <<layoutVars, transformVars, processorVars, windowVars,
                   workerVars, mergeVars>>

\* the worker thread: BookletProcessor.save_booklet, line 196, the argument
\* layout_map=self.layout.active_layout evaluated
WorkerReadLayout ==
    /\ saving_thread = "running"
    /\ pc = "dims"
    /\ layout_map' = layout.active_layout
    /\ pc' = "slots"
    /\ UNCHANGED <<mode, output_width_pt, output_height_pt, downscale_images,
                   writer, loop_i, progress, result>>
    /\ UNCHANGED <<layoutVars, transformVars, processorVars, windowVars,
                   workerVars, mergeVars>>

\* the worker thread: BookletProcessor.save_booklet, line 197, the argument
\* mode=self.layout.active_mode evaluated, and PDFSaver.save_booklet up to
\* the loop
WorkerReadMode ==
    /\ saving_thread = "running"
    /\ pc = "slots"
    /\ mode' = layout.active_mode
    /\ downscale_images' = saving_worker.downscale
    /\ \E opened \in BOOLEAN :
           IF opened
           THEN /\ progress' = <<0, 5>>
                /\ pc' = "loop"
                /\ UNCHANGED result
           ELSE /\ progress' = <<0, 0>>
                /\ result' = SaveFailed
                /\ pc' = "done"
    /\ writer' = <<>>
    /\ loop_i' = 0
    /\ UNCHANGED <<layout_map, output_width_pt, output_height_pt>>
    /\ UNCHANGED <<layoutVars, transformVars, processorVars, windowVars,
                   workerVars, mergeVars>>

\* the worker thread: one iteration of the loop of save_booklet
WorkerBuildSheet ==
    /\ saving_thread = "running"
    /\ BuildSheet

\* the worker thread: save_booklet after the loop
WorkerSaveFinish ==
    /\ saving_thread = "running"
    /\ SaveFinish

\* processing_finished(True) delivered: _on_save_finished, and quit() on
\* the thread; run() has returned, what its pass held is gone
OnSaveFinished ==
    /\ saving_thread = "running"
    /\ pc = "done"
    /\ result.success
    /\ menu_enabled' = TRUE
    /\ control_enabled' = TRUE
    /\ saving_thread' = "quitting"
    /\ UNCHANGED <<saving_worker, running_saves, processing_thread>>
    /\ layout_map' = <<>>
    /\ mode' = "booklet"
    /\ output_width_pt' = 0
    /\ output_height_pt' = 0
    /\ downscale_images' = FALSE
    /\ writer' = <<>>
    /\ loop_i' = 0
    /\ progress' = <<>>
    /\ pc' = "idle"
    /\ result' = SaveFailed
    /\ UNCHANGED <<is_pdf_open, selected_mode, selected_output_size,
                   current_booklet_page, current_preview_dpi, tabs_enabled>>
    /\ UNCHANGED <<layoutVars, transformVars, processorVars, workerVars,
                   mergeVars>>

\* processing_failed(error_message) of the save worker delivered:
\* processing_failed_handler, that is _reset_pdf_state, and quit() on the
\* thread; run() has returned, what its pass held is gone
ProcessingFailedHandler ==
    /\ saving_thread = "running"
    /\ pc = "done"
    /\ ~result.success
    /\ is_pdf_open' = FALSE
    /\ current_booklet_page' = 0
    /\ current_preview_dpi' = 72
    /\ tabs_enabled' = FALSE
    /\ control_enabled' = FALSE
    /\ saving_thread' = "quitting"
    /\ UNCHANGED <<saving_worker, running_saves, processing_thread>>
    /\ layout_map' = <<>>
    /\ mode' = "booklet"
    /\ output_width_pt' = 0
    /\ output_height_pt' = 0
    /\ downscale_images' = FALSE
    /\ writer' = <<>>
    /\ loop_i' = 0
    /\ progress' = <<>>
    /\ pc' = "idle"
    /\ result' = SaveFailed
    /\ UNCHANGED <<selected_mode, selected_output_size, menu_enabled>>
    /\ UNCHANGED <<layoutVars, transformVars, processorVars, workerVars,
                   mergeVars>>

\* the saving thread's finished signal, lines 697-704: it has stopped, the
\* window forgets it and its worker
SavingThreadFinished ==
    /\ saving_thread = "quitting"
    /\ saving_thread' = "none"
    /\ saving_worker' = NoWorker
    /\ running_saves' = running_saves - 1
    /\ UNCHANGED <<is_pdf_open, selected_mode, selected_output_size,
                   current_booklet_page, current_preview_dpi, tabs_enabled,
                   menu_enabled, control_enabled, processing_thread>>
    /\ UNCHANGED <<layoutVars, transformVars, processorVars, saveVars, workerVars,
                   mergeVars>>

\* _on_global_transform_changed: a value of the Global Options tab changed
OnGlobalTransformChanged ==
    /\ tabs_enabled
    /\ is_pdf_open
    /\ \E transform_dict \in GlobalOptionValues :
           transform_manager' = set_global_transform(transform_manager, transform_dict)
    /\ tm_op' = "set_global_transform"
    /\ tm_arg' = 0
    /\ tm_ret' = NoTransform
    /\ output_width' = set_output_size(original_size_pt(reader_pages),
                                       selected_output_size)[1]
    /\ output_height' = set_output_size(original_size_pt(reader_pages),
                                        selected_output_size)[2]
    /\ layout' = regenerate_layout(layout, selected_mode)
    /\ layout_op' = regenerate_layout_op(selected_mode)
    /\ layout_ret' = layout'.active_layout
    /\ layout_arg' = 0
    /\ indices_ret' = <<-1, -1>>
    /\ pixmap' = render_page(reader_pages, layout', transform_manager',
                      output_width', output_height',
                      current_booklet_page, current_preview_dpi)
    /\ UNCHANGED reader_pages
    /\ UNCHANGED <<saveVars, windowVars, workerVars,
                   mergeVars>>

\* _on_page_transform_changed: a value of the Page Options tab changed
OnPageTransformChanged ==
    /\ tabs_enabled
    /\ is_pdf_open
    /\ \E selection \in PageOptionSelections(Len(layout.active_layout)),
          transform_dict \in PageOptionValues :
           LET domain  == selection[1]
               current_selected_booklet_page == selection[2]
               current_selected_side == selection[3]
               indices == get_page_indices(layout, current_selected_booklet_page)
               idx     == IF current_selected_side = "Right" THEN indices[2]
                          ELSE indices[1]
           IN  /\ ~(domain = "this" /\ (current_selected_booklet_page < 0
                                          \/ current_selected_side = "None"))
               /\ transform_manager' =
                      IF domain = "even"
                      THEN set_page_transform(transform_manager, 0, transform_dict, "even")
                      ELSE IF domain = "odd"
                      THEN set_page_transform(transform_manager, 1, transform_dict, "odd")
                      ELSE IF idx >= 0
                      THEN set_page_transform(transform_manager, idx, transform_dict, "this")
                      ELSE transform_manager
               /\ tm_op' = IF domain = "this" /\ idx < 0 THEN tm_op
                            ELSE "set_page_transform"
    /\ tm_arg' = 0
    /\ tm_ret' = NoTransform
    /\ pixmap' = render_page(reader_pages, layout, transform_manager',
                      output_width, output_height,
                      current_booklet_page, current_preview_dpi)
    /\ UNCHANGED <<reader_pages, output_width, output_height>>
    /\ UNCHANGED <<layoutVars, saveVars, windowVars, workerVars,
                   mergeVars>>

NextWindow ==
    \/ PerformSave
    \/ WorkerSetOutputSize
    \/ WorkerSheetSize
    \/ WorkerReadLayout
    \/ WorkerReadMode
    \/ WorkerBuildSheet
    \/ WorkerSaveFinish
    \/ OnSaveFinished
    \/ ProcessingFailedHandler
    \/ SavingThreadFinished
    \/ OnGlobalTransformChanged
    \/ OnPageTransformChanged

WindowSpec == InitWindow /\ [][NextWindow]_vars

-----------------------------------------------------------------------------
(* booklet_worker.py: BookletWorker.run, for every way of constructing the  *)
(* worker and every outcome of what it calls: WorkerSpec                    *)

\* largest page count of a document the load worker opens
MaxWorkerPages == 12

\* Python's None among the constructor arguments
None == "None"

\* the constructor arguments run() tests for truth
WorkerArguments ==
    [pdf_path: {None, "in.pdf"}, processor: {None, "processor"},
     output_path: {None, "out.pdf"}, output_size: {None, "automatic"}]

\* pyqtSignal.emit: the signal appended to what the worker has emitted
emit(emitted, name, arg) == Append(emitted, [name |-> name, arg |-> arg])

\* Python's min for two integers
Min2(a, b) == IF a < b THEN a ELSE b

\* _run_load_pdf, line 72: 50 + int((i + 1) / min(total_pages, 10) * 50)
progress_step(i, total_pages) ==
    50 + ((i + 1) * 50) \div Min2(total_pages, 10)

\* A plausible slip: a failed save reported by return value only.
save_result_signal_success_only(emitted, success, error_message) ==
    IF success THEN emit(emitted, "processing_finished", "True") ELSE emitted

\* _run_save_booklet, lines 104-109: what the return value of save_booklet
\* makes the worker emit
save_result_signal(emitted, success, error_message) ==
    IF success THEN emit(emitted, "processing_finished", "True")
    ELSE emit(emitted, "processing_failed",
              IF error_message = None THEN "Unknown save error" ELSE error_message)

InitWorker ==
    /\ LayoutIdle
    /\ TransformIdle
    /\ ProcessorIdle
    /\ SaveIdle
    /\ WindowIdle
    /\ worker \in WorkerArguments
    /\ worker_pc = At("run", 0, 0)
    /\ signals = <<>>
    /\ MergeIdle

\* run(), lines 49-56
Run ==
    /\ worker_pc.at = "run"
    /\ IF worker.pdf_path # None /\ worker.processor = None
       THEN /\ worker_pc' = At("_run_load_pdf", 0, 0)
            /\ UNCHANGED signals
       ELSE IF worker.processor # None /\ worker.output_path # None
       THEN /\ worker_pc' = At("_run_save_booklet", 0, 0)
            /\ UNCHANGED signals
       ELSE /\ signals' = emit(signals, "processing_failed",
                               "Worker initialized with insufficient parameters.")
            /\ worker_pc' = At("returned", 0, 0)
    /\ UNCHANGED <<worker, layoutVars, transformVars, processorVars, saveVars,
                   windowVars,
                   mergeVars>>

\* _run_load_pdf, lines 60-65 and the except clause: BookletProcessor(pdf_path)
\* raises, or gives a processor of some page count
RunLoadPdfOpen ==
    /\ worker_pc.at = "_run_load_pdf"
    /\ \E raised \in BOOLEAN, total_pages \in 0..MaxWorkerPages :
           IF raised
           THEN /\ total_pages = 0
                /\ signals' = emit(emit(signals, "progress_updated", 0),
                                    "processing_failed", "Error processing PDF: ...")
                /\ worker_pc' = At("returned", 0, 0)
           ELSE /\ signals' = emit(emit(signals, "progress_updated", 0),
                                    "progress_updated", 50)
                /\ worker_pc' = At("prepare", total_pages, 0)
    /\ UNCHANGED <<worker, layoutVars, transformVars, processorVars, saveVars,
                   windowVars,
                   mergeVars>>

\* _run_load_pdf, lines 69-75: one iteration of the loop
RunLoadPdfPrepare ==
    /\ worker_pc.at = "prepare"
    /\ worker_pc.total_pages > 0
    /\ worker_pc.i < Min2(worker_pc.total_pages, 10)
    /\ signals' = emit(signals, "progress_updated",
                       progress_step(worker_pc.i, worker_pc.total_pages))
    /\ worker_pc' = [worker_pc EXCEPT !.i = @ + 1]
    /\ UNCHANGED <<worker, layoutVars, transformVars, processorVars, saveVars,
                   windowVars,
                   mergeVars>>

\* _run_load_pdf, lines 77-78, reached past the loop or with no page
RunLoadPdfFinish ==
    /\ worker_pc.at = "prepare"
    /\ ~(worker_pc.total_pages > 0
          /\ worker_pc.i < Min2(worker_pc.total_pages, 10))
    /\ signals' = emit(emit(signals, "progress_updated", 100),
                       "processing_finished", "processor")
    /\ worker_pc' = At("returned", 0, 0)
    /\ UNCHANGED <<worker, layoutVars, transformVars, processorVars, saveVars,
                   windowVars,
                   mergeVars>>

\* _run_save_booklet, lines 90-91 and the except clause: set_output_size is
\* called when an output size was given, and may raise
RunSaveBookletSize ==
    /\ worker_pc.at = "_run_save_booklet"
    /\ \E raised \in BOOLEAN :
           IF raised
           THEN /\ worker.output_size # None
                /\ signals' = emit(signals, "processing_failed",
                                    "Critical error during saving: ...")
                /\ worker_pc' = At("returned", 0, 0)
           ELSE /\ worker_pc' = At("save_booklet", 0, 0)
                /\ UNCHANGED signals
    /\ UNCHANGED <<worker, layoutVars, transformVars, processorVars, saveVars,
                   windowVars,
                   mergeVars>>

\* _run_save_booklet, lines 95-114: save_booklet reports progress and
\* returns (success, error_message), or raises
RunSaveBookletCall ==
    /\ worker_pc.at = "save_booklet"
    /\ \E raised \in BOOLEAN, success \in BOOLEAN,
          error_message \in {None, "Save failed: ..."} :
           IF raised
           THEN /\ ~success /\ error_message = None
                /\ signals' = emit(emit(signals, "progress_updated", 0),
                                    "processing_failed",
                                    "Critical error during saving: ...")
           ELSE /\ success => error_message = None
                /\ signals' = save_result_signal(
                                   emit(signals, "progress_updated", 0),
                                   success, error_message)
    /\ worker_pc' = At("returned", 0, 0)
    /\ UNCHANGED <<worker, layoutVars, transformVars, processorVars, saveVars,
                   windowVars,
                   mergeVars>>

NextWorker ==
    \/ Run
    \/ RunLoadPdfOpen
    \/ RunLoadPdfPrepare
    \/ RunLoadPdfFinish
    \/ RunSaveBookletSize
    \/ RunSaveBookletCall

WorkerSpec == InitWorker /\ [][NextWorker]_vars

-----------------------------------------------------------------------------
(* main_window.py: the window from its construction on, opening, closing,  *)
(* paging, choosing mode and size, saving: SessionSpec                     *)

\* largest page count of a document opened in a session
MaxSessionPages == 2

\* the documents of n pages a session opens: 5 x 7 inch pages
SessionDocuments(n) ==
    {[i \in 1..n |-> [has_contents |-> TRUE, width |-> 360, height |-> 504]]}

\* what the Output Size combo and the custom inputs can be set to
SessionOutputSizes == {Automatic, <<4, 6, "in">>}

\* MainWindow.__init__: no document, nothing running
InitSession ==
    /\ LayoutIdle
    /\ TransformIdle
    /\ ProcessorIdle
    /\ SaveIdle
    /\ WindowIdle
    /\ WorkerIdle
    /\ MergeIdle

\* _update_preview_widget with a processor and a viewer, showing sheet page:
\* the selected size and mode are written into the processor, the layout is
\* regenerated, and the sheet is rendered
UpdatePreviewWidget(page) ==
    /\ output_width' = set_output_size(original_size_pt(reader_pages),
                                       selected_output_size)[1]
    /\ output_height' = set_output_size(original_size_pt(reader_pages),
                                        selected_output_size)[2]
    /\ layout' = regenerate_layout(layout, selected_mode)
    /\ layout_op' = regenerate_layout_op(selected_mode)
    /\ layout_ret' = layout'.active_layout
    /\ layout_arg' = 0
    /\ indices_ret' = <<-1, -1>>
    /\ pixmap' = render_page(reader_pages, layout', transform_manager,
                      output_width', output_height', page, current_preview_dpi)
    /\ UNCHANGED reader_pages

\* _reset_pdf_state: the window lets go of its processor; the menu bar is
\* left as it is
ResetPdfState ==
    /\ is_pdf_open' = FALSE
    /\ current_booklet_page' = 0
    /\ current_preview_dpi' = 72
    /\ tabs_enabled' = FALSE
    /\ control_enabled' = FALSE
    /\ UNCHANGED <<menu_enabled, selected_mode, selected_output_size>>

\* open_pdf_action_method with a file chosen: start_processing_thread
StartProcessingThread ==
    /\ menu_enabled
    /\ processing_thread = "none"
    /\ control_enabled' = FALSE
    /\ menu_enabled' = FALSE
    /\ tabs_enabled' = FALSE
    /\ processing_thread' = "running"
    /\ worker' = [pdf_path |-> "in.pdf", processor |-> None,
                  output_path |-> None, output_size |-> None]
    /\ worker_pc' = At("run", 0, 0)
    /\ signals' = <<>>
    /\ UNCHANGED <<is_pdf_open, selected_mode, selected_output_size,
                   current_booklet_page, current_preview_dpi, saving_thread,
                   saving_worker, running_saves>>
    /\ UNCHANGED <<layoutVars, transformVars, processorVars, saveVars, mergeVars>>

\* the processing thread: run() of the load worker, from its first line to
\* its terminal signal; a document that opens has 1..MaxSessionPages pages
RunLoadPdf ==
    /\ processing_thread = "running"
    /\ worker_pc.at = "run"
    /\ \E raised \in BOOLEAN, total_pages \in 1..MaxSessionPages :
           IF raised
           THEN /\ total_pages = 1
                /\ signals' = emit(signals, "processing_failed",
                                    "Error processing PDF: ...")
                /\ worker_pc' = At("returned", 0, 0)
           ELSE /\ signals' = emit(signals, "processing_finished", "processor")
                /\ worker_pc' = At("returned", total_pages, 0)
    /\ UNCHANGED <<worker, layoutVars, transformVars, processorVars, saveVars,
                   windowVars, mergeVars>>

\* processing_finished(processor) delivered: processing_finished_handler,
\* and the processing thread quitting.  The processor is as its __init__
\* left it; the combos go back to Booklet and Automatic; the sheet index
\* current_booklet_page is not assigned.
ProcessingFinishedHandler ==
    /\ processing_thread = "running"
    /\ worker_pc.at = "returned"
    /\ signals[Len(signals)].name = "processing_finished"
    /\ reader_pages' \in SessionDocuments(worker_pc.total_pages)
    /\ transform_manager' = PageTransformManager(worker_pc.total_pages)
    /\ tm_op' = "__init__"
    /\ tm_arg' = 0
    /\ tm_ret' = NoTransform
    /\ selected_mode' = "booklet"
    /\ selected_output_size' = Automatic
    /\ is_pdf_open' = TRUE
    /\ menu_enabled' = TRUE
    /\ control_enabled' = TRUE
    /\ tabs_enabled' = TRUE
    /\ output_width' = original_size_pt(reader_pages')[1]
    /\ output_height' = original_size_pt(reader_pages')[2]
    /\ layout' = generate_booklet_layout(BookletLayout(worker_pc.total_pages))
    /\ layout_op' = "generate_booklet_layout"
    /\ layout_ret' = layout'.active_layout
    /\ layout_arg' = 0
    /\ indices_ret' = <<-1, -1>>
    /\ pixmap' = render_page(reader_pages', layout', transform_manager',
                      output_width', output_height',
                      current_booklet_page, current_preview_dpi)
    /\ processing_thread' = "none"
    /\ worker' = NoWorker
    /\ worker_pc' = At("none", 0, 0)
    /\ signals' = <<>>
    /\ UNCHANGED <<current_booklet_page, current_preview_dpi, saving_thread,
                   saving_worker, running_saves>>
    /\ UNCHANGED <<saveVars, mergeVars>>

\* processing_failed(error_message) of the load worker delivered:
\* processing_failed_handler, that is _reset_pdf_state, and the processing
\* thread quitting
LoadFailedHandler ==
    /\ processing_thread = "running"
    /\ worker_pc.at = "returned"
    /\ signals[Len(signals)].name = "processing_failed"
    /\ ResetPdfState
    /\ processing_thread' = "none"
    /\ worker' = NoWorker
    /\ worker_pc' = At("none", 0, 0)
    /\ signals' = <<>>
    /\ UNCHANGED <<saving_thread, saving_worker, running_saves>>
    /\ UNCHANGED <<layoutVars, transformVars, processorVars, saveVars, mergeVars>>

\* close_pdf_action_method, enabled by _update_menu_state while a PDF is open
ClosePdf ==
    /\ menu_enabled
    /\ is_pdf_open
    /\ ResetPdfState
    /\ UNCHANGED <<saving_thread, saving_worker, running_saves, processing_thread>>
    /\ UNCHANGED <<layoutVars, transformVars, processorVars, saveVars,
                   workerVars, mergeVars>>

\* what a handler of the control widget leaves alone besides the sheet index
\* and the processor
ControlHandlerFrame ==
    /\ UNCHANGED <<is_pdf_open, selected_mode, selected_output_size,
                   current_preview_dpi, tabs_enabled, menu_enabled,
                   control_enabled, saving_thread, saving_worker, running_saves,
                   processing_thread>>
    /\ UNCHANGED <<transformVars, saveVars, workerVars, mergeVars>>

\* _go_first_page
GoFirstPage ==
    /\ control_enabled
    /\ is_pdf_open
    /\ current_booklet_page' = 0
    /\ UpdatePreviewWidget(0)
    /\ ControlHandlerFrame

\* _go_prev_page, when it does anything
GoPrevPage ==
    /\ control_enabled
    /\ is_pdf_open
    /\ current_booklet_page > 0
    /\ current_booklet_page' = current_booklet_page - 1
    /\ UpdatePreviewWidget(current_booklet_page - 1)
    /\ ControlHandlerFrame

\* _go_next_page, when it does anything: the bound is the count of the
\* layout the processor holds before _update_preview_widget regenerates it
GoNextPage ==
    /\ control_enabled
    /\ is_pdf_open
    /\ current_booklet_page < get_layout_count(layout) - 1
    /\ current_booklet_page' = current_booklet_page + 1
    /\ UpdatePreviewWidget(current_booklet_page + 1)
    /\ ControlHandlerFrame

\* _go_last_page: likewise the count before the layout is regenerated
GoLastPage ==
    /\ control_enabled
    /\ is_pdf_open
    /\ current_booklet_page' = get_layout_count(layout) - 1
    /\ UpdatePreviewWidget(get_layout_count(layout) - 1)
    /\ ControlHandlerFrame

\* update_preview_action_method with a PDF open
UpdatePreviewAction ==
    /\ control_enabled
    /\ is_pdf_open
    /\ UNCHANGED current_booklet_page
    /\ UpdatePreviewWidget(current_booklet_page)
    /\ ControlHandlerFrame

\* the user picks another entry of imposition_type_combo: nothing is
\* connected to it, the choice is read at the next _update_preview_widget
SelectImpositionMode ==
    /\ tabs_enabled
    /\ \E chosen \in {"booklet", "calendar", "single"} \ {selected_mode} :
           selected_mode' = chosen
    /\ UNCHANGED <<is_pdf_open, selected_output_size, current_booklet_page,
                   current_preview_dpi, tabs_enabled, menu_enabled,
                   control_enabled, saving_thread, saving_worker, running_saves,
                   processing_thread>>
    /\ UNCHANGED <<layoutVars, transformVars, processorVars, saveVars,
                   workerVars, mergeVars>>

\* the user picks another output size: likewise read at the next
\* _update_preview_widget and at _perform_save
SelectOutputSize ==
    /\ tabs_enabled
    /\ \E chosen \in SessionOutputSizes \ {selected_output_size} :
           selected_output_size' = chosen
    /\ UNCHANGED <<is_pdf_open, selected_mode, current_booklet_page,
                   current_preview_dpi, tabs_enabled, menu_enabled,
                   control_enabled, saving_thread, saving_worker, running_saves,
                   processing_thread>>
    /\ UNCHANGED <<layoutVars, transformVars, processorVars, saveVars,
                   workerVars, mergeVars>>

NextSession ==
    \/ StartProcessingThread
    \/ RunLoadPdf
    \/ ProcessingFinishedHandler
    \/ LoadFailedHandler
    \/ ClosePdf
    \/ GoFirstPage
    \/ GoPrevPage
    \/ GoNextPage
    \/ GoLastPage
    \/ UpdatePreviewAction
    \/ SelectImpositionMode
    \/ SelectOutputSize
    \/ OnGlobalTransformChanged
    \/ PerformSave
    \/ WorkerSetOutputSize
    \/ WorkerSheetSize
    \/ WorkerReadLayout
    \/ WorkerReadMode
    \/ WorkerBuildSheet
    \/ WorkerSaveFinish
    \/ OnSaveFinished
    \/ ProcessingFailedHandler
    \/ SavingThreadFinished

SessionSpec == InitSession /\ [][NextSession]_vars

-----------------------------------------------------------------------------
(* pdf_saver.py: the cleanup of the matrix in _merge_page_with_transform,   *)
(* for coefficients that carry a rounding error: CleanupSpec.  A float here *)
(* is [exact, err]: the fraction it stands for and the error it carries,    *)
(* counted in units of 1e-12.  The fractions are drawn from ExactValues and *)
(* the errors stay within MaxErr units, so a float differs from -1, 0 or 1  *)
(* by less than 1e-10 exactly when its fraction is that number and its      *)
(* error is below Tolerance units: any other fraction of ExactValues is at  *)
(* least 1/2 away.                                                          *)

\* largest rounding error of a coefficient, in units of 1e-12
MaxErr == 101

\* 1e-10 in units of 1e-12
Tolerance == 100

\* a float: the fraction exact with the error err
Float(exact, err) == [exact |-> exact, err |-> err]

\* the fractions the coefficients of the model stand for
ExactValues == {Num(-1), Num(0), Num(1), <<1, 2>>, <<-3, 2>>, Num(300)}

\* the rounding errors of the model: none, the smallest, just inside the
\* tolerance, on it, and just outside, of either sign
ErrValues == {0, 1, -1, Tolerance - 1, 1 - Tolerance, Tolerance, -Tolerance,
              MaxErr, -MaxErr}

\* the floats of the model
FloatValues == {Float(exact, err) : exact \in ExactValues, err \in ErrValues}

\* abs(value - k) < 1e-10 for k in -1, 0, 1
NearTo(value, k) == value.exact = Num(k) /\ Abs(value.err) < Tolerance

\* A plausible slip: the test for -1 written as a second test for 1.
clean_value_no_minus_one(value) ==
    IF NearTo(value, 0) THEN Float(Num(0), 0)
    ELSE IF NearTo(value, 1) THEN Float(Num(1), 0)
    ELSE IF NearTo(value, 1) THEN Float(Num(-1), 0)
    ELSE value

\* _merge_page_with_transform, lines 400-408: what is appended for a value
clean_value(value) ==
    IF NearTo(value, 0) THEN Float(Num(0), 0)
    ELSE IF NearTo(value, 1) THEN Float(Num(1), 0)
    ELSE IF NearTo(value, -1) THEN Float(Num(-1), 0)
    ELSE value

\* the matrices of the model: a, d and e are one float, b and f another, and
\* c is a third
Matrices ==
    {<<v, w, u, v, v, w>> : v \in FloatValues, w \in FloatValues,
                            u \in {Float(Num(0), 0), Float(Num(-1), Tolerance - 1)}}

\* line 394: ctm = transformation.ctm, and line 398: cleaned_ctm = []
InitCleanup ==
    /\ LayoutIdle
    /\ TransformIdle
    /\ ProcessorIdle
    /\ SaveIdle
    /\ WindowIdle
    /\ WorkerIdle
    /\ raw_ctm \in Matrices
    /\ cleaned_ctm = <<>>

\* lines 399-408: one iteration of "for value in ctm"
CleanValue ==
    /\ Len(cleaned_ctm) < Len(raw_ctm)
    /\ cleaned_ctm' = Append(cleaned_ctm, clean_value(raw_ctm[Len(cleaned_ctm) + 1]))
    /\ UNCHANGED <<raw_ctm, layoutVars, transformVars, processorVars, saveVars,
                   windowVars, workerVars>>

\* line 410, ctm = tuple(cleaned_ctm), and the step run on that matrix again
CleanAgain ==
    /\ raw_ctm # <<>>
    /\ Len(cleaned_ctm) = Len(raw_ctm)
    /\ raw_ctm # cleaned_ctm
    /\ raw_ctm' = cleaned_ctm
    /\ cleaned_ctm' = <<>>
    /\ UNCHANGED <<layoutVars, transformVars, processorVars, saveVars,
                   windowVars, workerVars>>

NextCleanup == CleanValue \/ CleanAgain

CleanupSpec == InitCleanup /\ [][NextCleanup]_vars

-----------------------------------------------------------------------------
(* Claims about the planner, checked under LayoutSpec *)

\* the page count padded up to the next multiple of 4, as the claims state it
PaddedCount(n) == n + ((4 - (n % 4)) % 4)

\* C1: after generate_booklet_layout, for the page count n and
\* padded = n + (4 - n % 4) % 4, the returned list (which is the active layout,
\* in booklet mode) has exactly padded/2 slots; for every sheet i in
\* [0, padded/4) slot 2i is (padded-1-2i, 2i) and slot 2i+1 is
\* (2i+1, padded-1-(2i+1)); for n = 8 it is [(7,0), (1,6), (5,2), (3,4)].
C1_BookletSlots ==
    layout_op = "generate_booklet_layout" =>
        LET n      == layout.original_page_count
            padded == PaddedCount(n)
        IN  /\ layout_ret = layout.active_layout
            /\ layout.active_mode = "booklet"
            /\ 2 * Len(layout_ret) = padded
            /\ \A i \in 0..((padded \div 4) - 1) :
                   /\ layout_ret[2 * i + 1] = <<padded - 1 - 2 * i, 2 * i>>
                   /\ layout_ret[2 * i + 2] = <<2 * i + 1, padded - 1 - (2 * i + 1)>>
            /\ n = 8 => layout_ret = << <<7, 0>>, <<1, 6>>, <<5, 2>>, <<3, 4>> >>

\* C1 happens: the booklet layout of 8 pages has been generated.
C1_Witness ==
    /\ layout_op = "generate_booklet_layout"
    /\ layout.original_page_count = 8
    /\ Len(layout_ret) = 4

\* C2: for every page count n, padding_needed is (4 - n % 4) % 4 and lies in
\* 0..3, and padded_page_count = n + padding_needed is a multiple of 4, equal
\* to n when n is already a multiple of 4.
C2_Padding ==
    LET n == layout.original_page_count
    IN  /\ layout.padding_needed = (4 - (n % 4)) % 4
        /\ layout.padding_needed \in 0..3
        /\ layout.padded_page_count = n + layout.padding_needed
        /\ layout.padded_page_count % 4 = 0
        /\ (n % 4 = 0) => (layout.padded_page_count = n)

\* C2 happens: 5 pages are padded by 3 to 8.
C2_Witness ==
    /\ layout.original_page_count = 5
    /\ layout.padding_needed = 3
    /\ layout.padded_page_count = 8

\* C3: after generate_calendar_layout, the returned list (the active layout,
\* in calendar mode) holds one slot for each even i in [0, n), in increasing
\* order: (i, i+1) when i+1 < n and (i, -1) otherwise; for n = 5 it is
\* [(0,1), (2,3), (4,-1)].
C3_CalendarSlots ==
    layout_op = "generate_calendar_layout" =>
        LET n == layout.original_page_count
        IN  /\ layout_ret = layout.active_layout
            /\ layout.active_mode = "calendar"
            /\ Len(layout_ret) = Cardinality({i \in 0..(n - 1) : i % 2 = 0})
            /\ \A k \in 1..Len(layout_ret) :
                   LET i == 2 * (k - 1)
                   IN  layout_ret[k] = IF i + 1 < n THEN <<i, i + 1>> ELSE <<i, -1>>
            /\ n = 5 => layout_ret = << <<0, 1>>, <<2, 3>>, <<4, -1>> >>

\* C3 happens: the calendar layout of 5 pages, whose last slot has a blank.
C3_Witness ==
    /\ layout_op = "generate_calendar_layout"
    /\ layout.original_page_count = 5
    /\ layout_ret[3] = <<4, -1>>

\* C4: get_page_indices(i) answers (-1, -1) for i < 0 and for
\* i >= len(active_layout); for an i in range it answers the stored pair
\* unchanged in booklet and calendar mode and (page, -1) for a single-mode
\* entry; the layout object is left as it was.
C4_PageIndices ==
    layout_op = "get_page_indices" =>
        LET i == layout_arg
        IN  IF i < 0 \/ i >= Len(layout.active_layout)
            THEN indices_ret = <<-1, -1>>
            ELSE /\ layout.active_mode \in {"booklet", "calendar"}
                        => indices_ret = layout.active_layout[i + 1]
                 /\ layout.active_mode = "single"
                        => indices_ret = <<layout.active_layout[i + 1][1], -1>>
                 /\ Len(indices_ret) = 2

\* C4 happens: the index just past a non-empty layout got the sentinel.
C4_Witness ==
    /\ layout_op = "get_page_indices"
    /\ Len(layout.active_layout) > 0
    /\ layout_arg = Len(layout.active_layout)
    /\ indices_ret = <<-1, -1>>

\* the slot members of a slot list: (slot, position) pairs
SlotMembers(lay) == {<<k, side>> : k \in 1..Len(lay), side \in 1..2}

\* C25: after generate_booklet_layout, for every page count n >= 0, the page
\* indices in the slot list are exactly 0..padded-1, each exactly once over
\* all slots and positions; so every source page is placed on exactly one
\* sheet side, and exactly padding_needed slot members are blank
\* (is_blank_page, index >= n).
C25_BookletPermutation ==
    layout_op = "generate_booklet_layout" =>
        LET n       == layout.original_page_count
            padded  == layout.padded_page_count
            members == SlotMembers(layout_ret)
        IN  /\ \A m \in members : layout_ret[m[1]][m[2]] \in 0..(padded - 1)
            /\ \A p \in 0..(padded - 1) :
                   Cardinality({m \in members : layout_ret[m[1]][m[2]] = p}) = 1
            /\ Cardinality({m \in members :
                                is_blank_page(layout, layout_ret[m[1]][m[2]])})
                   = layout.padding_needed

\* C25 happens: the booklet layout of 5 pages, with 3 blank members among 8.
C25_Witness ==
    /\ layout_op = "generate_booklet_layout"
    /\ layout.original_page_count = 5
    /\ Cardinality(SlotMembers(layout_ret)) = 8
    /\ Cardinality({m \in SlotMembers(layout_ret) :
                        is_blank_page(layout, layout_ret[m[1]][m[2]])}) = 3

-----------------------------------------------------------------------------
(* Claims about the transform store, checked under TransformSpec *)

\* the composition of an applying transform t with the default g, as the
\* claims state it
Composed(t, g) ==
    [h_shift_mm      |-> t.h_shift_mm + g.h_shift_mm,
     v_shift_mm      |-> t.v_shift_mm + g.v_shift_mm,
     scale_percent   |-> (t.scale_percent * g.scale_percent) \div 100,
     rotation_deg    |-> t.rotation_deg + g.rotation_deg,
     h_flip          |-> (t.h_flip /\ ~g.h_flip) \/ (~t.h_flip /\ g.h_flip),
     v_flip          |-> (t.v_flip /\ ~g.v_flip) \/ (~t.v_flip /\ g.v_flip),
     h_scale_percent |-> (t.h_scale_percent * g.h_scale_percent) \div 100,
     v_scale_percent |-> (t.v_scale_percent * g.v_scale_percent) \div 100]

\* the last call was get_transform_for_page on a source page of the document
ResolvedInRange ==
    /\ tm_op = "get_transform_for_page"
    /\ tm_arg >= 0
    /\ tm_arg < transform_manager.total_pages

\* the override or domain transform that applies to page p (NoTransform if
\* none does), by the priority order the claims state
Applying(self, p) ==
    IF p \in DOMAIN self.page_transforms THEN self.page_transforms[p]
    ELSE IF (p + 1) % 2 = 0 THEN self.even_pages_transform
    ELSE self.odd_pages_transform

C6_Composition ==
    (ResolvedInRange /\ Applying(transform_manager, tm_arg) # NoTransform) =>
        LET t == Applying(transform_manager, tm_arg)
            g == transform_manager.global_transform
        IN  /\ tm_ret.h_shift_mm = t.h_shift_mm + g.h_shift_mm
            /\ tm_ret.v_shift_mm = t.v_shift_mm + g.v_shift_mm
            /\ tm_ret.rotation_deg = t.rotation_deg + g.rotation_deg
            /\ 100 * tm_ret.scale_percent = t.scale_percent * g.scale_percent
            /\ 100 * tm_ret.h_scale_percent = t.h_scale_percent * g.h_scale_percent
            /\ 100 * tm_ret.v_scale_percent = t.v_scale_percent * g.v_scale_percent
            /\ tm_ret.h_flip = (t.h_flip # g.h_flip)
            /\ tm_ret.v_flip = (t.v_flip # g.v_flip)
            /\ (g # Identity) => (tm_ret # t /\ tm_ret # g)

\* C6 happens: default 5 mm, 50 %, h-mirror; override 3 mm, 200 %, h-mirror;
\* resolved 8 mm, 100 %, no h-mirror.
C6_Witness ==
    /\ ResolvedInRange
    /\ tm_arg \in DOMAIN transform_manager.page_transforms
    /\ transform_manager.global_transform.h_shift_mm = 5
    /\ transform_manager.global_transform.scale_percent = 50
    /\ transform_manager.global_transform.h_flip
    /\ transform_manager.page_transforms[tm_arg].h_shift_mm = 3
    /\ transform_manager.page_transforms[tm_arg].scale_percent = 200
    /\ transform_manager.page_transforms[tm_arg].h_flip
    /\ tm_ret.h_shift_mm = 8
    /\ tm_ret.scale_percent = 100
    /\ ~tm_ret.h_flip

\* C7: for p < 0 or p >= total_pages, get_transform_for_page(p) is the
\* identity transform, whatever the default, the domain transforms and the
\* overrides are, an override stored under p itself included.
C7_OutOfRange ==
    (/\ tm_op = "get_transform_for_page"
     /\ (tm_arg < 0 \/ tm_arg >= transform_manager.total_pages)) =>
        /\ tm_ret = Identity
        /\ is_identity(tm_ret)

\* C7 happens: the index just past the last page holds an override, the
\* default and both domain transforms are set, and the identity came back.
C7_Witness ==
    /\ tm_op = "get_transform_for_page"
    /\ tm_arg = transform_manager.total_pages
    /\ tm_arg \in DOMAIN transform_manager.page_transforms
    /\ transform_manager.global_transform # Identity
    /\ transform_manager.even_pages_transform # NoTransform
    /\ transform_manager.odd_pages_transform # NoTransform
    /\ tm_ret = Identity

\* the store contents a resolution may depend on
SameStore(a, b) ==
    /\ a.total_pages = b.total_pages
    /\ a.global_transform = b.global_transform
    /\ a.even_pages_transform = b.even_pages_transform
    /\ a.odd_pages_transform = b.odd_pages_transform
    /\ a.page_transforms = b.page_transforms

\* overrides d set one by one, smallest remaining key of keys first
RECURSIVE SetOverrides(_, _, _)
SetOverrides(self, d, keys) ==
    IF keys = {} THEN self
    ELSE LET k == CHOOSE x \in keys : \A y \in keys : x <= y
         IN  SetOverrides(set_page_transform(self, k, d[k], "this"), d, keys \ {k})

\* a second store brought to the contents of self by one fixed sequence of
\* calls: overrides in key order, then the odd and the even domain transform,
\* then the default
Rebuilt(self) ==
    LET m0 == PageTransformManager(self.total_pages)
        m1 == SetOverrides(m0, self.page_transforms, DOMAIN self.page_transforms)
        m2 == IF self.odd_pages_transform = NoTransform THEN m1
              ELSE set_page_transform(m1, 1, self.odd_pages_transform, "odd")
        m3 == IF self.even_pages_transform = NoTransform THEN m2
              ELSE set_page_transform(m2, 0, self.even_pages_transform, "even")
    IN  set_global_transform(m3, self.global_transform)

\* C8: resolution depends only on the store contents.  The store reached by
\* whatever sequence of calls and the store rebuilt to the same contents by
\* one fixed sequence hold the same default, domain transforms and overrides
\* and resolve every page alike; and from every reachable store, setting the
\* default before or after an override or a domain transform resolves every
\* page alike.
C8_StoreOnly ==
    LET self == transform_manager
        twin == Rebuilt(self)
    IN  /\ SameStore(twin, self)
        /\ \A p \in PageArgs(self) :
               get_transform_for_page(twin, p) = get_transform_for_page(self, p)
        /\ \A g \in Transforms, t \in Transforms :
               \A call \in {<<k, "this">> : k \in PageArgs(self)}
                              \cup {<<0, "even">>, <<1, "odd">>} :
                   LET default_first == set_page_transform(
                           set_global_transform(self, g), call[1], t, call[2])
                       default_last  == set_global_transform(
                           set_page_transform(self, call[1], t, call[2]), g)
                   IN  /\ SameStore(default_first, default_last)
                       /\ \A p \in PageArgs(self) :
                              get_transform_for_page(default_first, p)
                                  = get_transform_for_page(default_last, p)

\* C8 happens: a store that holds two overrides, a domain transform and a
\* default has been resolved for a page with an override.
C8_Witness ==
    /\ tm_op = "get_transform_for_page"
    /\ ResolvedInRange
    /\ transform_manager.global_transform = SampleB
    /\ transform_manager.odd_pages_transform = SampleA
    /\ DOMAIN transform_manager.page_transforms = {0, 1}
    /\ tm_ret = Composed(transform_manager.page_transforms[tm_arg], SampleB)

\* C9: a call of get_transform_for_page, for a page index in range or not,
\* leaves the whole store (default, domain transforms, overrides,
\* explicit_overrides, total_pages) as it was, and a call repeated with no
\* other call in between returns the same transform again.
C9_NoSideEffect ==
    [][(tm_op' = "get_transform_for_page") =>
           /\ transform_manager' = transform_manager
           /\ (tm_op = "get_transform_for_page" /\ tm_arg' = tm_arg)
                  => tm_ret' = tm_ret]_vars

\* C9 happens: a page with an override under a set default has been resolved
\* and the store still holds the override as it was set.
C9_Witness ==
    /\ ResolvedInRange
    /\ tm_arg \in DOMAIN transform_manager.page_transforms
    /\ transform_manager.page_transforms[tm_arg] = SampleB
    /\ transform_manager.global_transform = SampleA
    /\ tm_ret = Composed(SampleB, SampleA)
    /\ transform_manager.explicit_overrides = {tm_arg}

\* The store members a call leaves alone when it addresses a parity domain
OverridesOf(self) == <<self.page_transforms, self.explicit_overrides>>

-----------------------------------------------------------------------------
(* Claims about the save pass, checked under SaveSpec *)

\* the pass has returned (True, None)
SaveSucceededNow == pc = "done" /\ result.success

\* the members of a slot that name a source page with a content stream, in
\* the order primary, secondary
SlotSources(reader, entry) ==
    SelectSeq(EntryIndices(entry),
              LAMBDA idx : IsSourcePage(reader, idx) /\ reader[idx + 1].has_contents)

\* the source pages placed on an output sheet, in the order of its content
SheetSources(sheet) ==
    [k \in 1..Len(sheet.contents) |-> sheet.contents[k].xobj_name]

\* one output sheet per slot, sheet k built from slot k
OneSheetPerSlot ==
    /\ Len(writer) = Len(layout_map)
    /\ \A k \in 1..Len(writer) :
           /\ SheetSources(writer[k]) = SlotSources(reader_pages, layout_map[k])
           /\ writer[k].width = output_width_pt
           /\ writer[k].height = output_height_pt

\* every source page resolves to the identity transform
IdentityTransforms ==
    \A p \in 0..(Len(reader_pages) - 1) :
        is_identity(get_transform_for_page(transform_manager, p))

\* C10 as stated: a successful pass adds exactly one output sheet per slot,
\* in slot-list order, also for slots whose members are all blank or skipped;
\* hence a single-mode pass over n pages with identity transforms gives n
\* sheets, each with exactly one placement.
C10_AsStated ==
    SaveSucceededNow =>
        /\ OneSheetPerSlot
        /\ (mode = "single" /\ IdentityTransforms) =>
               /\ Len(writer) = Len(reader_pages)
               /\ \A k \in 1..Len(writer) : Len(writer[k].contents) = 1

\* C10 as amended: a successful pass adds exactly one output sheet per slot,
\* in slot-list order, also for slots whose members are all blank or skipped;
\* hence a single-mode pass over n pages with identity transforms gives n
\* sheets, sheet k with exactly one placement (of page k) when page k has a
\* content stream and with none when it has not.
C10_SheetPerSlot ==
    SaveSucceededNow =>
        /\ OneSheetPerSlot
        /\ (mode = "single" /\ IdentityTransforms) =>
               /\ Len(writer) = Len(reader_pages)
               /\ \A k \in 1..Len(writer) :
                      IF reader_pages[k].has_contents
                      THEN /\ Len(writer[k].contents) = 1
                           /\ writer[k].contents[1].xobj_name = k - 1
                      ELSE writer[k].contents = <<>>

\* C10 happens: a single-mode pass over three pages, the second without a
\* content stream, under identity transforms, has succeeded with three sheets.
C10_Witness ==
    /\ SaveSucceededNow
    /\ mode = "single"
    /\ IdentityTransforms
    /\ Len(reader_pages) = 3
    /\ reader_pages[1].has_contents
    /\ ~reader_pages[2].has_contents
    /\ Len(writer) = 3
    /\ Len(writer[1].contents) = 1
    /\ writer[2].contents = <<>>

\* C11: the sheet size given to the saver is (2W, H) in booklet mode, (W, 2H)
\* in calendar mode and (W, H) in single mode, W x H being the configured
\* one-page size; the saver is given the active mode, and creates every
\* output page with that size.
C11_SheetSize ==
    pc # "idle" =>
        /\ mode = layout.active_mode
        /\ mode = "booklet" =>
               output_width_pt = 2 * output_width /\ output_height_pt = output_height
        /\ mode = "calendar" =>
               output_width_pt = output_width /\ output_height_pt = 2 * output_height
        /\ mode = "single" =>
               output_width_pt = output_width /\ output_height_pt = output_height
        /\ \A k \in 1..Len(writer) :
               /\ writer[k].width = output_width_pt
               /\ writer[k].height = output_height_pt

\* C11 happens: a calendar pass for 600 x 800 pages has built a sheet of
\* 600 x 1600.
C11_Witness ==
    /\ pc = "loop"
    /\ layout.active_mode = "calendar"
    /\ output_width = 600
    /\ output_height = 800
    /\ Len(writer) >= 1
    /\ writer[1].width = 600
    /\ writer[1].height = 1600


\* the rectangle (x0, y0, x1, y1) lies inside the sheet [0, w] x [0, h]
RectInside(r, w, h) ==
    /\ 0 <= r[1] /\ r[1] <= r[3] /\ r[3] <= w
    /\ 0 <= r[2] /\ r[2] <= r[4] /\ r[4] <= h

\* the interiors of two rectangles meet
RectsOverlap(r, s) ==
    /\ r[1] < s[3] /\ s[1] < r[3]
    /\ r[2] < s[4] /\ s[2] < r[4]

\* the rectangle the claim gives to the member at position pos (1 primary,
\* 2 secondary) of a slot on a sheet of w x h
ClaimedRect(r, save_mode, pos, w, h) ==
    IF save_mode = "booklet"
    THEN IF pos = 1
         THEN r[1] = 0 /\ r[2] = 0 /\ 2 * r[3] = w /\ r[4] = h
         ELSE 2 * r[1] = w /\ r[2] = 0 /\ r[3] = w /\ r[4] = h
    ELSE IF save_mode = "calendar"
    THEN IF pos = 1
         THEN r[1] = 0 /\ 2 * r[2] = h /\ r[3] = w /\ r[4] = h
         ELSE r[1] = 0 /\ r[2] = 0 /\ r[3] = w /\ 2 * r[4] = h
    ELSE r = <<0, 0, w, h>>

\* the position in the slot of the member that names source page idx
MemberPosition(entry, idx) == IF EntryIndices(entry)[1] = idx THEN 1 ELSE 2

\* C12: on every sheet of positive width w and height h, every target
\* rectangle of a placement lies inside [0,w] x [0,h], two rectangles of one
\* sheet share at most an edge, and the rectangles are left (0,0,w/2,h) and
\* right (w/2,0,w,h) in booklet mode, top (0,h/2,w,h) and bottom (0,0,w,h/2)
\* in calendar mode, the whole sheet (0,0,w,h) in single mode.
C12_TargetRects ==
    \A k \in 1..Len(writer) :
        LET sheet == writer[k]
            w     == sheet.width
            h     == sheet.height
        IN  (w > 0 /\ h > 0) =>
                \A j \in 1..Len(sheet.contents) :
                    LET r == sheet.contents[j].target_rect
                    IN  /\ RectInside(r, w, h)
                        /\ ClaimedRect(r, mode,
                               MemberPosition(layout_map[k], sheet.contents[j].xobj_name),
                               w, h)
                        /\ \A i \in 1..(j - 1) :
                               ~RectsOverlap(sheet.contents[i].target_rect, r)

\* C12 happens: a calendar sheet of 800 x 1200 carries two placements, the
\* first in the top half and the second in the bottom half.
C12_Witness ==
    /\ mode = "calendar"
    /\ Len(writer) >= 1
    /\ writer[1].width = 800
    /\ writer[1].height = 1200
    /\ Len(writer[1].contents) = 2
    /\ writer[1].contents[1].target_rect = <<0, 600, 800, 1200>>
    /\ writer[1].contents[2].target_rect = <<0, 0, 800, 600>>


\* a slot member that the claim says is skipped: blank, out of range, or a
\* page without a content stream
SkippedMember(reader, idx) ==
    \/ idx = -1
    \/ idx >= Len(reader)
    \/ (IsSourcePage(reader, idx) /\ ~reader[idx + 1].has_contents)

\* the members of a slot that are not skipped, in the order primary, secondary
PlacedMembers(reader, entry) ==
    SelectSeq(EntryIndices(entry), LAMBDA idx : ~SkippedMember(reader, idx))

\* C13: a slot member that is blank (-1), out of range or without a content
\* stream gives no placement and no error: in every step of the loop, a slot
\* whose members are all blank or out of range cannot abort the pass, and
\* every sheet that is added carries exactly the members that are not
\* skipped, each in the rectangle of its own position, after which the loop
\* goes on with the next slot.
C13_SkipSilently ==
    [][(pc = "loop" /\ loop_i < Len(layout_map)) =>
          LET entry   == layout_map[loop_i + 1]
              members == EntryIndices(entry)
          IN  /\ (\A j \in 1..2 : members[j] = -1 \/ members[j] >= Len(reader_pages))
                     => pc' = "loop"
              /\ pc' = "loop" =>
                     /\ loop_i' = loop_i + 1
                     /\ Len(writer') = Len(writer) + 1
                     /\ SubSeq(writer', 1, Len(writer)) = writer
                     /\ LET sheet == writer'[Len(writer')]
                        IN  /\ SheetSources(sheet) = PlacedMembers(reader_pages, entry)
                            /\ \A j \in 1..Len(sheet.contents) :
                                   ClaimedRect(sheet.contents[j].target_rect, mode,
                                       MemberPosition(entry, sheet.contents[j].xobj_name),
                                       sheet.width, sheet.height)
              /\ pc' = "done" => ~result'.success /\ writer' = writer]_vars

\* C13 happens: a booklet pass over one page has succeeded with two sheets;
\* the front sheet has a padding index on the left and page 0, placed in the
\* right half, on the right; the members of the back sheet are all padding.
C13_Witness ==
    /\ SaveSucceededNow
    /\ mode = "booklet"
    /\ Len(reader_pages) = 1
    /\ layout_map = <<(<<3, 0>>), (<<1, 2>>)>>
    /\ Len(writer) = 2
    /\ Len(writer[1].contents) = 1
    /\ writer[1].contents[1].xobj_name = 0
    /\ 2 * writer[1].contents[1].target_rect[1] = writer[1].width
    /\ writer[2].contents = <<>>


\* the operator names of the block the claim gives for one placement
ClaimedBlock == <<"q", "re", "W", "n", "q", "cm", "Do", "Q", "Q">>

\* the number of saves less the number of restores among the first k
\* operators of a stream
Depth(stream, k) ==
    Cardinality({i \in 1..k : stream[i].op = "q"})
        - Cardinality({i \in 1..k : stream[i].op = "Q"})

\* the stream is the blocks of the placements, one after the other in the
\* order in which they were appended, each as the claim gives it
StreamOfBlocks(sheet) ==
    /\ Len(sheet.stream) = Len(ClaimedBlock) * Len(sheet.contents)
    /\ \A j \in 1..Len(sheet.contents) :
           LET first == Len(ClaimedBlock) * (j - 1)
               r     == sheet.contents[j].target_rect
           IN  /\ \A i \in 1..Len(ClaimedBlock) :
                      sheet.stream[first + i].op = ClaimedBlock[i]
               /\ sheet.stream[first + 2].args = <<r[1], r[2], r[3] - r[1], r[4] - r[2]>>
               /\ Len(sheet.stream[first + 6].args) = 6
               /\ sheet.stream[first + 6].args = sheet.contents[j].ctm
               /\ sheet.stream[first + 7].args = <<sheet.contents[j].xobj_name>>
               /\ \A i \in {1, 3, 4, 5, 8, 9} : sheet.stream[first + i].args = <<>>
               \* balanced: nothing is left saved after the block, and within
               \* it the matrix and the form are under both saves
               /\ Depth(sheet.stream, first) = 0
               /\ Depth(sheet.stream, first + 7) = 2
               /\ Depth(sheet.stream, first + Len(ClaimedBlock)) = 0

\* C15: for every placement the content of the sheet is extended, after what
\* is already there, by exactly q; x0 y0 (x1-x0) (y1-y0) re; W; n; q; the six
\* numbers of the matrix cm; the name of the block Do; Q; Q, the rectangle
\* being the target rectangle of the placement; saves and restores balance,
\* so no clip or matrix of one placement is in force for a later one.
C15_OperatorSequence ==
    /\ \A k \in 1..Len(writer) :
           /\ StreamOfBlocks(writer[k])
           /\ \A j \in 1..Len(writer[k].contents) :
                  ClaimedRect(writer[k].contents[j].target_rect, mode,
                      MemberPosition(layout_map[k], writer[k].contents[j].xobj_name),
                      writer[k].width, writer[k].height)
           /\ \A i \in 0..Len(writer[k].stream) : Depth(writer[k].stream, i) >= 0

\* C15 happens: a booklet sheet carries two placements; its stream is two
\* blocks, the second clipped to the right half.
C15_Witness ==
    /\ mode = "booklet"
    /\ Len(writer) >= 1
    /\ Len(writer[1].contents) = 2
    /\ Len(writer[1].stream) = 18
    /\ writer[1].stream[10].op = "q"
    /\ writer[1].stream[11] = Op("re", <<writer[1].width \div 2, 0,
                                         writer[1].width \div 2, writer[1].height>>)
    /\ writer[1].stream[16].op = "Do"
    /\ writer[1].stream[18].op = "Q"


\* the last percentage given to the progress callback
LastPercent(reports) == reports[Len(reports)]

\* C17 as stated: in every pass, whatever its options and outcome, the
\* percentages given to the progress callback lie in 0..100 and none is
\* smaller than one given earlier in the same pass.
C17_AsStated ==
    /\ \A k \in 1..Len(progress) : progress[k] \in 0..100
    /\ \A i, j \in 1..Len(progress) : i < j => progress[i] <= progress[j]

\* C18: save_booklet ends a pass with exactly one result.  A step in which a
\* failure is reported ends the pass with (False, message), the message not
\* empty, and adds no sheet; a pass ends with (True, None) exactly when every
\* slot has been built and the file written (the report of 100); no other
\* result occurs, and a pass that has ended does nothing further.
C18_OneResult ==
    [][/\ (pc # "idle" /\ progress' # progress /\ LastPercent(progress') = 0) =>
              /\ pc' = "done"
              /\ ~result'.success
              /\ result'.error_message # ""
              /\ writer' = writer
       /\ (pc # "done" /\ pc' = "done") =>
              /\ result' \in {[success |-> TRUE, error_message |-> "None"],
                              [success |-> FALSE, error_message |-> "Save failed: ..."]}
              /\ result'.success <=> LastPercent(progress') = 100
              /\ result'.success => loop_i' = Len(layout_map') /\ Len(writer') = Len(layout_map')
              /\ ~result'.success => LastPercent(progress') = 0
       /\ pc' # "done" => result' = result
       /\ pc = "done" => UNCHANGED saveVars]_vars

\* C18 happens: a pass over two slots built one sheet, failed on the second
\* and returned (False, message).
C18_Witness ==
    /\ pc = "done"
    /\ ~result.success
    /\ result.error_message # ""
    /\ Len(layout_map) = 2
    /\ Len(writer) = 1
    /\ loop_i = 1
    /\ LastPercent(progress) = 0

-----------------------------------------------------------------------------
(* Claims about the planner and the saver used directly, under EmitSpec *)

\* C14 as stated: placements never collide in the resource table of a sheet:
\* every placement of a sheet is registered under a name of its own, also
\* when one source page is placed twice on the sheet, so a sheet with k
\* placements has k entries in its /XObject dictionary and every Do invokes
\* the form its own placement registered.
C14_AsStated ==
    \A k \in 1..Len(writer) :
        LET sheet == writer[k]
        IN  /\ Cardinality(DOMAIN sheet.xobjects) = Len(sheet.contents)
            /\ \A i, j \in 1..Len(sheet.contents) :
                   i # j => sheet.contents[i].xobj_name # sheet.contents[j].xobj_name
            /\ \A j \in 1..Len(sheet.contents) :
                   /\ sheet.contents[j].xobj_name \in DOMAIN sheet.xobjects
                   /\ sheet.stream[9 * (j - 1) + 7] = Op("Do", <<sheet.contents[j].xobj_name>>)

\* C19 as stated: a page count below zero given to the planner, and a mode
\* other than booklet, calendar and single given to the saver, are rejected
\* with an error: the planner returns no slot list for such a count, and a
\* pass with such a mode ends in failure without a sheet and without the
\* source having been opened.
C19_AsStated ==
    /\ layout_op # "__init__" => layout.original_page_count >= 0
    /\ (pc # "idle" /\ mode \notin {"booklet", "calendar", "single"}) =>
           /\ pc = "done"
           /\ ~result.success
           /\ writer = <<>>
           /\ \A k \in 1..Len(progress) : progress[k] # 5


-----------------------------------------------------------------------------
(* Claims about the preview and the saved sheet, checked under PreviewSpec *)

\* the centre of a rectangle (x0, y0, x1, y1)
RectCentre(r) ==
    <<RDiv(Num(r[1] + r[3]), Num(2)), RDiv(Num(r[2] + r[4]), Num(2))>>

\* how far, in points, a placement of the saved sheet puts the centre of its
\* source page to the right of and above the centre of its target rectangle
\* (the y axis of a PDF page points up)
SavedDisplacement(placement) ==
    LET page   == reader_pages[placement.xobj_name + 1]
        centre == Apply(placement.ctm, RDiv(Num(page.width), Num(2)),
                        RDiv(Num(page.height), Num(2)))
        middle == RectCentre(placement.target_rect)
    IN  <<RSub(centre[1], middle[1]), RSub(centre[2], middle[2])>>

\* how far, in pixels, a drawImage of the preview puts its image to the right
\* of and above the place where it is centred in its cell (the y axis of the
\* image points down)
PreviewDisplacement(image) ==
    LET cell == IF image.clip = <<>>
                THEN <<0, 0, pixmap.canvas_width, pixmap.canvas_height>>
                ELSE image.clip
        centred_x == cell[1] + ((cell[3] - image.width) \div 2)
        centred_y == cell[2] + ((cell[4] - image.height) \div 2)
    IN  <<image.x_offset - centred_x, centred_y - image.y_offset>>

\* C16: the saved sheet and the preview use the same shift convention: for a
\* page placed on a saved sheet and drawn in the preview under the same
\* transform, the sheet displaces the page by h_shift_mm * 72 / 25.4 points
\* to the right and v_shift_mm * 72 / 25.4 points upwards, and the preview
\* displaces its image by the same amounts times the zoom, cut to whole
\* pixels, in the same directions: right for a positive h_shift_mm, towards
\* the top of the sheet for a positive v_shift_mm.
C16_ShiftConvention ==
    \A k \in 1..Len(writer) :
        \A j \in 1..Len(writer[k].contents) :
            \A d \in 1..Len(pixmap.drawn) :
                LET placement == writer[k].contents[j]
                    image     == pixmap.drawn[d]
                    t         == placement.transform
                IN  (/\ placement.xobj_name = image.page
                     /\ t = image.transform
                     /\ t # NoTransform
                     /\ ~is_identity(t)) =>
                        LET saved   == SavedDisplacement(placement)
                            preview == PreviewDisplacement(image)
                        IN  /\ saved[1] = RDiv(RMul(Num(t.h_shift_mm), Num(72)), <<127, 5>>)
                            /\ saved[2] = RDiv(RMul(Num(t.v_shift_mm), Num(72)), <<127, 5>>)
                            /\ preview[1] = RTrunc(RMul(saved[1], pixmap.zoom))
                            /\ preview[2] = RTrunc(RMul(saved[2], pixmap.zoom))
                            /\ (t.v_shift_mm > 0 => saved[2][1] > 0 /\ preview[2] >= 0)
                            /\ (t.v_shift_mm < 0 => saved[2][1] < 0 /\ preview[2] <= 0)
                            /\ (t.h_shift_mm > 0 => saved[1][1] > 0 /\ preview[1] >= 0)

\* C16 happens: page 0, under a transform with v_shift_mm = 2 and
\* h_shift_mm = 8, is on a saved sheet and in a preview at 150 dpi, moved up
\* and to the right in both.
C16_Witness ==
    /\ Len(writer) >= 1
    /\ Len(pixmap.drawn) >= 1
    /\ pixmap.zoom = <<25, 12>>
    /\ \E k \in 1..Len(writer) :
           \E j \in 1..Len(writer[k].contents) :
               \E d \in 1..Len(pixmap.drawn) :
                   /\ writer[k].contents[j].xobj_name = 0
                   /\ pixmap.drawn[d].page = 0
                   /\ pixmap.drawn[d].transform = writer[k].contents[j].transform
                   /\ pixmap.drawn[d].transform # NoTransform
                   /\ pixmap.drawn[d].transform.v_shift_mm = 2
                   /\ pixmap.drawn[d].transform.h_shift_mm = 8
                   /\ PreviewDisplacement(pixmap.drawn[d])[2] > 0
                   /\ PreviewDisplacement(pixmap.drawn[d])[1] > 0
                   /\ SavedDisplacement(writer[k].contents[j])[2][1] > 0

-----------------------------------------------------------------------------
(* Claims about the placement matrix, checked under SaveSpec *)

\* the shift of a placement in points, none without a transform
PlacementShift(placement) ==
    IF placement.transform = NoTransform THEN <<Num(0), Num(0)>>
    ELSE <<shift_pt(placement.transform.h_shift_mm),
           shift_pt(placement.transform.v_shift_mm)>>

\* C22: for every placement the emitted matrix maps the centre of the source
\* page to the centre of the target rectangle displaced by the shift in
\* points (mm * 72 / 25.4); with an identity transform or no transform, onto
\* the centre of the target rectangle exactly, for every source page size and
\* target rectangle, also when the fit scale is 1.
C22_AsStated ==
    \A sheet \in 1..Len(writer) :
        \A k \in 1..Len(writer[sheet].contents) :
            SavedDisplacement(writer[sheet].contents[k])
                = PlacementShift(writer[sheet].contents[k])

\* the same for the placements whose matrix the near-1 branch did not build
C22_OffTheNearOneBranch ==
    \A sheet \in 1..Len(writer) :
        \A k \in 1..Len(writer[sheet].contents) :
            LET placement == writer[sheet].contents[k]
                page      == reader_pages[placement.xobj_name + 1]
            IN  (\/ (placement.transform # NoTransform
                        /\ ~is_identity(placement.transform))
                 \/ ~RLess(RAbs(RSub(fit_scale(page.width, page.height,
                                                placement.target_rect), Num(1))),
                           <<1, 1000>>))
                    => SavedDisplacement(placement) = PlacementShift(placement)

\* the angle C23 states: the user's, of opposite sign under exactly one mirror
ClaimedAngle(transform) ==
    IF transform.h_flip # transform.v_flip THEN -transform.rotation_deg
    ELSE transform.rotation_deg

\* the axis scale C23 states: the fit scale times the user's scale, negated
\* under the mirror of that axis
ClaimedScale(base_scale, axis_scale, flip) ==
    RMul(RMul(base_scale, axis_scale), IF flip THEN Num(-1) ELSE Num(1))

\* the coefficients a, b, c, d of the matrix that scales by the claimed axis
\* scales and then turns by the claimed angle, cleaned
ClaimedLinearPart(page, placement) ==
    LET base_scale == fit_scale(page.width, page.height, placement.target_rect)
        linear == rotated(scale(Transformation,
                      ClaimedScale(base_scale, user_scale(placement.transform)[1],
                                   placement.transform.h_flip),
                      ClaimedScale(base_scale, user_scale(placement.transform)[2],
                                   placement.transform.v_flip)),
                      ClaimedAngle(placement.transform))
    IN  [k \in 1..4 |-> cleaned(linear[k])]

\* C23: mirrors are sign flips of the axis scales and flip the rotation's
\* handedness once each: under h-mirror the x scale is negated, under v-mirror
\* the y scale, and the angle used in the matrix has the opposite sign to the
\* unmirrored case when exactly one mirror is active and the same sign when
\* both or neither are.
C23_Mirrors ==
    \A sheet \in 1..Len(writer) :
        \A k \in 1..Len(writer[sheet].contents) :
            LET placement == writer[sheet].contents[k]
                page      == reader_pages[placement.xobj_name + 1]
            IN  (placement.transform # NoTransform /\ ~is_identity(placement.transform))
                    => [j \in 1..4 |-> placement.ctm[j]]
                           = ClaimedLinearPart(page, placement)

\* a placement under one mirror, under both and under none, each turned
MirrorsPlaced(h_flip, v_flip) ==
    \E sheet \in 1..Len(writer) :
        \E k \in 1..Len(writer[sheet].contents) :
            LET transform == writer[sheet].contents[k].transform
            IN  /\ transform # NoTransform
                /\ transform.h_flip = h_flip
                /\ transform.v_flip = v_flip
                /\ transform.rotation_deg % 180 # 0

\* a sheet with a page under the h-mirror only, turned by a quarter
C23_Witness == MirrorsPlaced(TRUE, FALSE) /\ pc = "done"

\* a sheet with a page under both mirrors, turned by a quarter
C23_WitnessBoth == MirrorsPlaced(TRUE, TRUE)

-----------------------------------------------------------------------------
(* Claims about the cleanup of the matrix, checked under CleanupSpec *)

\* a float lies less than 1e-10 from one of -1, 0, 1
NearAnExactValue(value) ==
    \E k \in {-1, 0, 1} : value.exact = Num(k) /\ Abs(value.err) < Tolerance

\* C24: the cleanup replaces every coefficient less than 1e-10 away from -1,
\* 0 or 1 by that exact value and leaves every other coefficient unchanged,
\* and it is idempotent: the step applied to a cleaned matrix returns that
\* matrix.
C24_Cleanup ==
    /\ \A k \in 1..Len(cleaned_ctm) :
           /\ cleaned_ctm[k] = IF NearAnExactValue(raw_ctm[k])
                                THEN Float(raw_ctm[k].exact, 0)
                                ELSE raw_ctm[k]
           /\ clean_value(cleaned_ctm[k]) = cleaned_ctm[k]
    /\ (Len(cleaned_ctm) = 6 /\ \A k \in 1..6 : ~NearAnExactValue(raw_ctm[k])
            \/ raw_ctm[k].err = 0)
           => cleaned_ctm = raw_ctm

\* a matrix with a coefficient just inside the tolerance of -1, one on the
\* tolerance of 1 and one far from all three has been cleaned
C24_Witness ==
    /\ Len(cleaned_ctm) = 6
    /\ raw_ctm[3] = Float(Num(-1), Tolerance - 1)
    /\ cleaned_ctm[3] = Float(Num(-1), 0)
    /\ raw_ctm[1] = Float(Num(1), Tolerance)
    /\ cleaned_ctm[1] = raw_ctm[1]
    /\ raw_ctm[2] = Float(<<1, 2>>, 1)
    /\ cleaned_ctm[2] = raw_ctm[2]

\* a cleaned matrix has been cleaned again
C24_WitnessAgain ==
    /\ Len(cleaned_ctm) = 6
    /\ raw_ctm = cleaned_ctm
    /\ raw_ctm[3] = Float(Num(-1), 0)
    /\ raw_ctm[2] = Float(Num(0), 0)

-----------------------------------------------------------------------------
(* Claims about the worker, checked under WorkerSpec *)

\* the terminal signals among what a worker has emitted
TerminalSignals(emitted) ==
    {k \in 1..Len(emitted) :
        emitted[k].name \in {"processing_finished", "processing_failed"}}

\* C28: every call of BookletWorker.run() emits exactly one terminal signal,
\* processing_finished or processing_failed: none while it runs, one and only
\* one once it has returned, in load mode, in save mode and with insufficient
\* parameters, also when what it calls raises or returns failure.
C28_OneTerminalSignal ==
    worker_pc.at # "none" =>
        Cardinality(TerminalSignals(signals))
            = IF worker_pc.at = "returned" THEN 1 ELSE 0

\* a save worker whose save_booklet returned failure has returned
C28_Witness ==
    /\ worker_pc.at = "returned"
    /\ worker.processor # None
    /\ worker.output_path # None
    /\ Len(signals) = 2
    /\ signals[2] = [name |-> "processing_failed", arg |-> "Unknown save error"]

-----------------------------------------------------------------------------
(* Claims about the window over a session, checked under SessionSpec *)

\* C26: whenever a PDF is open and its active layout is not empty, the
\* previewed sheet index is one of the layout: 0 <= current_booklet_page <
\* layout count, after any sequence of first/prev/next/last navigation,
\* changes of the imposition mode followed by a preview update, closing, and
\* opening another PDF.
C26_AsStated ==
    (is_pdf_open /\ get_layout_count(layout) > 0)
        => (0 <= current_booklet_page
            /\ current_booklet_page < get_layout_count(layout))

\* a step in which the window handles the terminal signal of a load or of a
\* save
TerminalSignalHandled ==
    \/ processing_thread = "running" /\ processing_thread' = "none"
    \/ saving_thread = "running" /\ saving_thread' = "quitting"

\* C27: every load or save started from the main window returns the window
\* to an operable state: once the terminal signal of the worker is handled,
\* be it processing_finished or processing_failed, the menu bar that was
\* disabled at the start of the run is enabled again.
C27_AsStated == [][TerminalSignalHandled => menu_enabled']_vars

\* what C27 rules out, and the program reaches: nothing is running, nothing
\* is queued, and the menu bar is disabled
C27_MenuLost ==
    /\ processing_thread = "none"
    /\ saving_thread = "none"
    /\ ~menu_enabled

\* the saver of the pass in flight has been given its arguments
SaverCalled == saving_thread = "running" /\ pc = "loop"

\* the arguments of the saver are those of mode chosen and of the one-page
\* size given by output_size
ArgumentsOf(chosen, output_size) ==
    LET size == set_output_size(original_size_pt(reader_pages), output_size)
    IN  /\ mode = chosen
        /\ layout_map = LayoutInMode(Len(reader_pages), chosen).active_layout
        /\ <<output_width_pt, output_height_pt>>
               = SheetSize(chosen, size[1], size[2])

\* C30: within one save, the sheet dimensions, the mode string and the slot
\* list passed to the saver belong to one and the same imposition mode and
\* output size, also when the GUI thread regenerates the layout or changes
\* the output size while the worker thread executes set_output_size and
\* save_booklet.
C30_AsStated ==
    SaverCalled =>
        \E chosen \in {"booklet", "calendar", "single"},
           output_size \in SessionOutputSizes :
            ArgumentsOf(chosen, output_size)

-----------------------------------------------------------------------------
(* Claims about the window and its worker thread, checked under WindowSpec *)

\* the placements of the sheets built so far were each made with the
\* transform the store resolves, now, for the page placed
PlacementsAgreeWithStore ==
    \A k \in 1..Len(writer) :
        \A j \in 1..Len(writer[k].contents) :
            writer[k].contents[j].transform =
                get_transform_for_page(transform_manager, writer[k].contents[j].xobj_name)

\* the worker thread is inside save_booklet, or about to enter it
PassInFlight ==
    saving_thread = "running" /\ pc \in {"idle", "sized", "dims", "slots", "loop"}

\* C21: at most one save pass runs at a time for one open processor: under
\* any sequence of Save, Save As and control-widget save requests no more
\* than one saving thread is alive, and while the pass of a worker is in
\* flight, its terminal signal not yet emitted, neither the menu bar nor the
\* control widget accepts a request, so that a second pass starts only after
\* the signal of the first and, through _cleanup_thread, after its thread
\* has stopped.
C21_OneSavePass ==
    /\ running_saves <= 1
    /\ (saving_thread = "none") = (running_saves = 0)
    /\ PassInFlight => ~menu_enabled /\ ~control_enabled
    /\ saving_thread = "quitting" => pc = "idle"

\* a pass is building its sheets: one thread alive, no request accepted
C21_Witness ==
    /\ saving_thread = "running"
    /\ running_saves = 1
    /\ pc = "loop"
    /\ loop_i > 0
    /\ is_pdf_open

\* C20, as the specification states it: while a pass started by
\* _perform_save is in flight on the worker thread, no set_global_transform
\* or set_page_transform of the GUI thread takes effect: no step taken while
\* the pass is in flight changes the transform store, so that every
\* get_transform_for_page of the pass reads the same contents.
C20_AsStated == [][PassInFlight => transform_manager' = transform_manager]_vars

\* what C20 rules out, and the program reaches: a pass still in flight with
\* a sheet whose placement was made with another transform than the store
\* now resolves for that page
C20_TornPass == PassInFlight /\ ~PlacementsAgreeWithStore /\ loop_i < Len(layout_map)

====
